---------------------------- MODULE Spec2Model ----------------------------
(***************************************************************************)
(* Model of the projection / simulation engine of the inflation-impact     *)
(* portfolio optimizer: src/data_manager.py (get_recommended_allocation)   *)
(* and src/models.py (forecast_inflation, simulate_scenarios,              *)
(* analyze_portfolio_performance, calculate_portfolio_real_performance),   *)
(* together with the process-wide numpy random generator those functions   *)
(* draw from.  Two dashboard sessions of one process share that generator: *)
(* the session that is not running is kept in the variable parked, and     *)
(* Switch hands the processor to it (section "Two dashboard sessions").    *)
(* Around the engine, the dashboard itself: the user store of              *)
(* src/db_manager.py and src/database.py, login, registration and logout   *)
(* of src/auth.py, the cached profile of src/data_manager.py and the       *)
(* profile form of src/app.py (section "The dashboard"), and get_engine of *)
(* src/database.py (section "get_engine").                                 *)
(*                                                                         *)
(* Two number systems are used.                                            *)
(*  - get_recommended_allocation only adds, subtracts, compares and        *)
(*    divides Python floats built from decimal literals.  Those are        *)
(*    IEEE-754 binary64 operations with round-to-nearest-even, and they    *)
(*    are modelled bit for bit (section "binary64").                       *)
(*  - the three functions of models.py consume normal draws and go through *)
(*    log / exp.  They are modelled in exact rational arithmetic on a      *)
(*    fixed-point grid; the normal draw is a value of a small grid.        *)
(*  - analyze_portfolio_performance is modelled a second time in binary64  *)
(*    for allocations whose blended volatility is 0.0, where no draw       *)
(*    enters the result (section "binary64, sigma = 0").                   *)
(***************************************************************************)
EXTENDS Integers, Sequences, FiniteSets, TLC

VARIABLES
    sum_impl,   \* which sum() the interpreter running the program has
    rec,        \* the get_recommended_allocation call: arguments and result
    rng,        \* numpy's process-wide generator (np.random)
    frame,      \* the models.py or get_engine call in progress: its locals
    ret,        \* what the last finished models.py or get_engine call returned
    parked,     \* frame and ret of the dashboard session that is not running
    db,         \* the user store: the tables users, profiles, portfolios
    web         \* per browser session: st.session_state and the script run

allocVars == <<sum_impl, rec>>

engineVars == <<rng, frame, ret, parked>>

appVars == <<db, web>>

vars == <<sum_impl, rec, rng, frame, ret, parked, db, web>>

(***************************************************************************)
(*                               binary64                                  *)
(* A non-negative double is [hi, lo, e], value (hi * 2^26 + lo) * 2^e with *)
(* a 53-bit significand (2^26 <= hi < 2^27), or zero (hi = lo = 0).        *)
(* Intermediate significands are "wide" pairs <<hi, lo>> of up to 57 bits. *)
(***************************************************************************)
Limb == 2 ^ 26

HalfLimb == 2 ^ 25

\* 2^26 <= hi < 2^27 for a normalised 53-bit significand
HiMin == 2 ^ 26

HiMax == 2 ^ 27

WZero == <<0, 0>>

WIsZero(w) == w[1] = 0 /\ w[2] = 0

WLt(a, b) == a[1] < b[1] \/ (a[1] = b[1] /\ a[2] < b[2])

WLe(a, b) == ~WLt(b, a)

WAdd(a, b) ==
    LET s == a[2] + b[2]
    IN  <<a[1] + b[1] + (s \div Limb), s % Limb>>

\* a - b for a >= b
WSub(a, b) ==
    IF a[2] >= b[2] THEN <<a[1] - b[1], a[2] - b[2]>>
    ELSE <<a[1] - b[1] - 1, a[2] + Limb - b[2]>>

WShl1(w) == <<w[1] * 2 + (w[2] \div HalfLimb), (w[2] % HalfLimb) * 2>>

WShr1(w) == <<w[1] \div 2, (w[1] % 2) * HalfLimb + (w[2] \div 2)>>

WOdd(w) == w[2] % 2 = 1

\* Shift right by n bits; ws = <<w, sticky>>, sticky becoming TRUE when a
\* non-zero bit is dropped.
RECURSIVE WShrS(_, _)
WShrS(ws, n) ==
    IF n = 0 \/ WIsZero(ws[1]) THEN ws
    ELSE WShrS(<<WShr1(ws[1]), ws[2] \/ WOdd(ws[1])>>, n - 1)

RECURSIVE WShl(_, _)
WShl(w, n) == IF n = 0 THEN w ELSE WShl(WShl1(w), n - 1)

FZero == [hi |-> 0, lo |-> 0, e |-> 0]

FIsZero(x) == x.hi = 0 /\ x.lo = 0

\* Round to nearest, ties to even: the exact value is (w + d) * 2^e with
\* 0 <= d < 1 and s = (d # 0).  w has at least 54 bits whenever s holds.
RECURSIVE RoundPack(_, _, _)
RoundPack(w, e, s) ==
    IF WIsZero(w) THEN FZero
    ELSE IF w[1] = 0 THEN RoundPack(<<w[2], 0>>, e - 26, s)
    ELSE IF w[1] < 2 ^ 20 THEN RoundPack(WShl(w, 8), e - 8, s)
    ELSE IF w[1] < HiMax THEN RoundPack(WShl1(w), e - 1, s)
    ELSE IF w[1] >= 2 * HiMax THEN RoundPack(WShr1(w), e + 1, s \/ WOdd(w))
    ELSE
        \* exactly 54 bits: 53 kept, the lowest is the rounding bit
        LET m  == WShr1(w)
            up == WOdd(w) /\ (s \/ WOdd(m))
            r  == IF up THEN WAdd(m, <<0, 1>>) ELSE m
        IN  IF r[1] >= HiMax THEN [hi |-> r[1] \div 2, lo |-> 0, e |-> e + 2]
            ELSE [hi |-> r[1], lo |-> r[2], e |-> e + 1]

FSig(x) == <<x.hi, x.lo>>

\* x < y, x <= y on non-negative doubles (normalised, so exponents order)
FLt(x, y) ==
    IF FIsZero(y) THEN FALSE
    ELSE IF FIsZero(x) THEN TRUE
    ELSE x.e < y.e \/ (x.e = y.e /\ WLt(FSig(x), FSig(y)))

FLe(x, y) == ~FLt(y, x)

\* Python's min(a, b) and max(a, b): the first argument unless the second
\* is strictly smaller (larger).
FMin(a, b) == IF FLt(b, a) THEN b ELSE a

FMax(a, b) == IF FLt(a, b) THEN b ELSE a

\* x + y.  Both significands get three extra low bits; the smaller operand
\* is shifted right to the larger one's exponent.
FAdd(x, y) ==
    IF FIsZero(x) THEN y
    ELSE IF FIsZero(y) THEN x
    ELSE
        LET big == IF FLt(x, y) THEN y ELSE x
            sml == IF FLt(x, y) THEN x ELSE y
            d   == big.e - sml.e
            a   == WShl(FSig(big), 3)
            bs  == WShrS(<<WShl(FSig(sml), 3), FALSE>>, d)
        IN  RoundPack(WAdd(a, bs[1]), big.e - 3, bs[2])

\* x - y for x >= y
FSub(x, y) ==
    IF FIsZero(y) THEN x
    ELSE
        LET d   == x.e - y.e
            a   == WShl(FSig(x), 3)
            bs  == WShrS(<<WShl(FSig(y), 3), FALSE>>, d)
            \* a - (b + frac) = (a - b - 1) + (1 - frac) when frac # 0
            w   == IF bs[2] THEN WSub(WSub(a, bs[1]), <<0, 1>>)
                   ELSE WSub(a, bs[1])
        IN  RoundPack(w, x.e - 3, bs[2])

\* One step of the long division of r by d: r is doubled and yields the
\* next quotient bit.  qr = <<q, r>> with r < d.
DivStep(qr, d) ==
    LET r2 == WShl1(qr[2])
        q2 == WShl1(qr[1])
    IN  IF WLe(d, r2) THEN <<WAdd(q2, <<0, 1>>), WSub(r2, d)>>
        ELSE <<q2, r2>>

DivStep5(qr, d) == DivStep(DivStep(DivStep(DivStep(DivStep(qr, d), d), d), d), d)

\* n more quotient bits, five at a time; stops early once the remainder is
\* zero (the bits left are all zero).  Yields <<q, r, bits left>>.
RECURSIVE WDivBits(_, _, _)
WDivBits(qr, d, n) ==
    IF n = 0 \/ WIsZero(qr[2]) THEN <<qr[1], qr[2], n>>
    ELSE WDivBits(DivStep5(qr, d), d, n - 5)

\* x / y, y # 0: a quotient of 55 or 56 bits and a sticky remainder
FDiv(x, y) ==
    IF FIsZero(x) THEN FZero
    ELSE
        LET a  == FSig(x)
            d  == FSig(y)
            q0 == IF WLe(d, a) THEN <<<<0, 1>>, WSub(a, d)>> ELSE <<WZero, a>>
            qr == WDivBits(q0, d, 55)
        IN  RoundPack(qr[1], x.e - y.e - 55 + qr[3], ~WIsZero(qr[2]))

\* The double of a small non-negative integer (exact)
FInt(n) == RoundPack(<<0, n>>, 0, FALSE)

\* The double a decimal literal n/100 denotes: the literal is converted with
\* correct rounding, as is the quotient of two exactly representable integers
Lit(n) == FDiv(FInt(n), FInt(100))

\* The four 13-bit digits (the top one of 14 bits) of a 53-bit significand
Digits(w) ==
    <<w[2] % 2 ^ 13, w[2] \div 2 ^ 13, w[1] % 2 ^ 13, w[1] \div 2 ^ 13>>

\* Column k (0..6) of the schoolbook product of two digit rows
Column(a, b, k) ==
    LET P(i) == IF k - i >= 0 /\ k - i <= 3 THEN a[i + 1] * b[k - i + 1] ELSE 0
    IN  P(0) + P(1) + P(2) + P(3)

\* The exact 106-bit product as eight 13-bit digits, lowest first
ProductDigits(a, b) ==
    LET t0 == Column(a, b, 0)
        t1 == Column(a, b, 1) + t0 \div 2 ^ 13
        t2 == Column(a, b, 2) + t1 \div 2 ^ 13
        t3 == Column(a, b, 3) + t2 \div 2 ^ 13
        t4 == Column(a, b, 4) + t3 \div 2 ^ 13
        t5 == Column(a, b, 5) + t4 \div 2 ^ 13
        t6 == Column(a, b, 6) + t5 \div 2 ^ 13
    IN  <<t0 % 2 ^ 13, t1 % 2 ^ 13, t2 % 2 ^ 13, t3 % 2 ^ 13,
          t4 % 2 ^ 13, t5 % 2 ^ 13, t6 % 2 ^ 13, t6 \div 2 ^ 13>>

\* x * y: the product's bits from 2^50 up, the bits below as sticky
FMul(x, y) ==
    IF FIsZero(x) \/ FIsZero(y) THEN FZero
    ELSE
        LET d  == ProductDigits(Digits(FSig(x)), Digits(FSig(y)))
            hi == d[8] * 2 ^ 15 + d[7] * 4 + d[6] \div 2 ^ 11
            lo == (d[6] % 2 ^ 11) * 2 ^ 15 + d[5] * 4 + d[4] \div 2 ^ 11
            s  == d[4] % 2 ^ 11 # 0 \/ d[3] # 0 \/ d[2] # 0 \/ d[1] # 0
        IN  RoundPack(<<hi, lo>>, x.e + y.e + 50, s)

\* Signed doubles: a sign and a magnitude
SPos(x) == [neg |-> FALSE, mag |-> x]

SNeg(s) == [neg |-> ~s.neg /\ ~FIsZero(s.mag), mag |-> s.mag]

SAdd(x, y) ==
    IF x.neg = y.neg THEN [neg |-> x.neg, mag |-> FAdd(x.mag, y.mag)]
    ELSE IF FLt(x.mag, y.mag) THEN [neg |-> y.neg, mag |-> FSub(y.mag, x.mag)]
    ELSE IF FLt(y.mag, x.mag) THEN [neg |-> x.neg, mag |-> FSub(x.mag, y.mag)]
    ELSE [neg |-> FALSE, mag |-> FZero]

SSub(x, y) == SAdd(x, SNeg(y))

SMul(x, y) ==
    LET m == FMul(x.mag, y.mag)
    IN  [neg |-> x.neg # y.neg /\ ~FIsZero(m), mag |-> m]

\* x / y, y # 0
SDiv(x, y) ==
    LET q == FDiv(x.mag, y.mag)
    IN  [neg |-> x.neg # y.neg /\ ~FIsZero(q), mag |-> q]

\* x < y
SLt(x, y) ==
    IF x.neg /\ ~y.neg THEN TRUE
    ELSE IF ~x.neg /\ y.neg THEN FALSE
    ELSE IF x.neg THEN FLt(y.mag, x.mag)
    ELSE FLt(x.mag, y.mag)

\* The double of a small integer (exact)
SInt(n) == IF n < 0 THEN [neg |-> TRUE, mag |-> FInt(-n)] ELSE SPos(FInt(n))

(***************************************************************************)
(*            get_recommended_allocation (src/data_manager.py)             *)
(***************************************************************************)
\* dict insertion order of the tables, kept by .copy() and by sum()
AssetOrder == <<"Equity", "Debt", "Gold", "Real Estate", "Cash">>

Assets == {AssetOrder[i] : i \in 1..Len(AssetOrder)}

KnownProfiles == {"Conservative", "Moderate", "Aggressive"}

Table(eq, de, go, re, ca) ==
    [a \in Assets |->
        CASE a = "Equity"      -> eq
          [] a = "Debt"        -> de
          [] a = "Gold"        -> go
          [] a = "Real Estate" -> re
          [] a = "Cash"        -> ca]

\* the three baseline tables
allocations ==
    [p \in KnownProfiles |->
        CASE p = "Conservative" -> Table(Lit(20), Lit(40), Lit(15), Lit(15), Lit(10))
          [] p = "Moderate"     -> Table(Lit(40), Lit(30), Lit(10), Lit(15), Lit(5))
          [] p = "Aggressive"   -> Table(Lit(60), Lit(20), Lit(5), Lit(10), Lit(5))]

\* BaselineLookup with a slip: the fallback is another table than Moderate
BaselineLookup_FallbackConservative(risk_profile) ==
    IF risk_profile \in KnownProfiles THEN allocations[risk_profile]
    ELSE allocations["Conservative"]

\* allocations.get(risk_profile, allocations['Moderate']).copy()
BaselineLookup(risk_profile) ==
    IF risk_profile \in KnownProfiles THEN allocations[risk_profile]
    ELSE allocations["Moderate"]

\* AdjustHorizon with a slip: the long-horizon branch taken from 10 years
\* on instead of above 10
AdjustHorizon_From10(allocation, investment_horizon) ==
    IF investment_horizon >= 10 THEN
        [allocation EXCEPT
            !["Equity"] = FMin(FAdd(@, Lit(10)), Lit(70)),
            !["Debt"]   = FMax(FSub(@, Lit(5)), Lit(10)),
            !["Cash"]   = FMax(FSub(@, Lit(5)), Lit(5))]
    ELSE IF investment_horizon < 3 THEN
        [allocation EXCEPT
            !["Equity"] = FMax(FSub(@, Lit(10)), Lit(10)),
            !["Debt"]   = FMin(FAdd(@, Lit(5)), Lit(50)),
            !["Cash"]   = FMin(FAdd(@, Lit(5)), Lit(20))]
    ELSE allocation

\* AdjustHorizon with a slip: no floor under Cash in the long-horizon branch
AdjustHorizon_CashUnfloored(allocation, investment_horizon) ==
    IF investment_horizon > 10 THEN
        [allocation EXCEPT
            !["Equity"] = FMin(FAdd(@, Lit(10)), Lit(70)),
            !["Debt"]   = FMax(FSub(@, Lit(5)), Lit(10)),
            !["Cash"]   = FMax(FSub(@, Lit(5)), FZero)]
    ELSE IF investment_horizon < 3 THEN
        [allocation EXCEPT
            !["Equity"] = FMax(FSub(@, Lit(10)), Lit(10)),
            !["Debt"]   = FMin(FAdd(@, Lit(5)), Lit(50)),
            !["Cash"]   = FMin(FAdd(@, Lit(5)), Lit(20))]
    ELSE allocation

\* AdjustHorizon with a slip: the long-horizon shift made once per decade
\* above 10 years instead of once
AdjustHorizon_PerDecade(allocation, investment_horizon) ==
    LET long(a) == [a EXCEPT
                       !["Equity"] = FMin(FAdd(@, Lit(10)), Lit(70)),
                       !["Debt"]   = FMax(FSub(@, Lit(5)), Lit(10)),
                       !["Cash"]   = FMax(FSub(@, Lit(5)), Lit(5))]
    IN  IF investment_horizon > 20 THEN long(long(allocation))
        ELSE IF investment_horizon > 10 THEN long(allocation)
        ELSE IF investment_horizon < 3 THEN
            [allocation EXCEPT
                !["Equity"] = FMax(FSub(@, Lit(10)), Lit(10)),
                !["Debt"]   = FMin(FAdd(@, Lit(5)), Lit(50)),
                !["Cash"]   = FMin(FAdd(@, Lit(5)), Lit(20))]
        ELSE allocation

\* the horizon branches
AdjustHorizon(allocation, investment_horizon) ==
    IF investment_horizon > 10 THEN
        [allocation EXCEPT
            !["Equity"] = FMin(FAdd(@, Lit(10)), Lit(70)),
            !["Debt"]   = FMax(FSub(@, Lit(5)), Lit(10)),
            !["Cash"]   = FMax(FSub(@, Lit(5)), Lit(5))]
    ELSE IF investment_horizon < 3 THEN
        [allocation EXCEPT
            !["Equity"] = FMax(FSub(@, Lit(10)), Lit(10)),
            !["Debt"]   = FMin(FAdd(@, Lit(5)), Lit(50)),
            !["Cash"]   = FMin(FAdd(@, Lit(5)), Lit(20))]
    ELSE allocation

\* AdjustInflation with a slip: the branches taken at 6.0 and 4.0 already
AdjustInflation_AtThreshold(allocation, inflation_rate) ==
    IF inflation_rate >= 60 THEN
        [allocation EXCEPT
            !["Equity"] = FMin(FAdd(@, Lit(5)), Lit(70)),
            !["Gold"]   = FMin(FAdd(@, Lit(5)), Lit(20)),
            !["Cash"]   = FMax(FSub(@, Lit(5)), Lit(5)),
            !["Debt"]   = FMax(FSub(@, Lit(5)), Lit(10))]
    ELSE IF inflation_rate <= 40 THEN
        [allocation EXCEPT
            !["Debt"]   = FMin(FAdd(@, Lit(5)), Lit(50)),
            !["Cash"]   = FMin(FAdd(@, Lit(5)), Lit(20)),
            !["Equity"] = FMax(FSub(@, Lit(5)), Lit(10)),
            !["Gold"]   = FMax(FSub(@, Lit(5)), Lit(5))]
    ELSE allocation

\* AdjustInflation with a slip: Cash is lowered without its floor of 0.05
AdjustInflation_CashUnfloored(allocation, inflation_rate) ==
    IF inflation_rate > 60 THEN
        [allocation EXCEPT
            !["Equity"] = FMin(FAdd(@, Lit(5)), Lit(70)),
            !["Gold"]   = FMin(FAdd(@, Lit(5)), Lit(20)),
            !["Cash"]   = FSub(@, Lit(5)),
            !["Debt"]   = FMax(FSub(@, Lit(5)), Lit(10))]
    ELSE IF inflation_rate < 40 THEN
        [allocation EXCEPT
            !["Debt"]   = FMin(FAdd(@, Lit(5)), Lit(50)),
            !["Cash"]   = FMin(FAdd(@, Lit(5)), Lit(20)),
            !["Equity"] = FMax(FSub(@, Lit(5)), Lit(10)),
            !["Gold"]   = FMax(FSub(@, Lit(5)), Lit(5))]
    ELSE allocation

\* the inflation branches; inflation_rate is in tenths of a percent, so the
\* thresholds 6.0 and 4.0 are 60 and 40
AdjustInflation(allocation, inflation_rate) ==
    IF inflation_rate > 60 THEN
        [allocation EXCEPT
            !["Equity"] = FMin(FAdd(@, Lit(5)), Lit(70)),
            !["Gold"]   = FMin(FAdd(@, Lit(5)), Lit(20)),
            !["Cash"]   = FMax(FSub(@, Lit(5)), Lit(5)),
            !["Debt"]   = FMax(FSub(@, Lit(5)), Lit(10))]
    ELSE IF inflation_rate < 40 THEN
        [allocation EXCEPT
            !["Debt"]   = FMin(FAdd(@, Lit(5)), Lit(50)),
            !["Cash"]   = FMin(FAdd(@, Lit(5)), Lit(20)),
            !["Equity"] = FMax(FSub(@, Lit(5)), Lit(10)),
            !["Gold"]   = FMax(FSub(@, Lit(5)), Lit(5))]
    ELSE allocation

\* sum() up to CPython 3.11: left-to-right additions from 0
RECURSIVE NaiveSum(_, _, _)
NaiveSum(allocation, i, acc) ==
    IF i > Len(AssetOrder) THEN acc
    ELSE NaiveSum(allocation, i + 1, FAdd(acc, allocation[AssetOrder[i]]))

\* sum() since CPython 3.12: Neumaier compensated summation, cs = <<hi, lo>>
CsAdd(cs, x) ==
    LET t == SAdd(cs[1], x)
    IN  IF FLe(x.mag, cs[1].mag)
        THEN <<t, SAdd(cs[2], SAdd(SSub(cs[1], t), x))>>
        ELSE <<t, SAdd(cs[2], SAdd(SSub(x, t), cs[1]))>>

RECURSIVE CompensatedSum(_, _, _)
CompensatedSum(allocation, i, cs) ==
    IF i > Len(AssetOrder) THEN
        (IF FIsZero(cs[2].mag) THEN cs[1].mag ELSE SAdd(cs[1], cs[2]).mag)
    ELSE CompensatedSum(allocation, i + 1,
                        CsAdd(cs, SPos(allocation[AssetOrder[i]])))

SumImpls == {"plain", "compensated"}

\* sum(allocation.values()) under the interpreter's summation impl
PySum(allocation, impl) ==
    IF impl = "plain" THEN NaiveSum(allocation, 1, FZero)
    ELSE CompensatedSum(allocation, 1, <<SPos(FZero), SPos(FZero)>>)

\* Normalize with a slip: the adjusted weights returned without the division
\* by their sum
Normalize_NoDivision(allocation, impl) == allocation

\* total = sum(...); normalized = {k: v/total ...}
Normalize(allocation, impl) ==
    LET total == PySum(allocation, impl)
    IN  [a \in Assets |-> FDiv(allocation[a], total)]

\* allocations_after with a slip: without .copy() the item assignments of the
\* adjustments land in the table that was looked up
allocations_after_NoCopy(risk_profile, adjusted) ==
    [allocations EXCEPT
        ![IF risk_profile \in KnownProfiles THEN risk_profile ELSE "Moderate"] = adjusted]

\* the local dict allocations when the function returns: the looked-up table
\* was copied, the adjustments were assigned to the items of the copy, and
\* the three tables have the entries they were built with
allocations_after(risk_profile, adjusted) == allocations

get_recommended_allocation(risk_profile, investment_horizon, inflation_rate, impl) ==
    Normalize(
        AdjustInflation(
            AdjustHorizon(BaselineLookup(risk_profile), investment_horizon),
            inflation_rate),
        impl)

\* An unrecognised tag stands for every string outside the three
RiskTags == KnownProfiles \cup {"Balanced"}

\* the horizon slider's range
MaxHorizon == 30

Horizons == 1..MaxHorizon

\* inflation rates in tenths of a percent: both sides of, and on, 4.0 and 6.0
Rates == {-10, 0, 39, 40, 50, 60, 61, 150}

NoTable == [a \in Assets |-> FZero]

RecIdle ==
    [pc |-> "idle", risk_profile |-> "", investment_horizon |-> 0,
     inflation_rate |-> 0, outcome |-> "none", value |-> NoTable,
     allocations |-> allocations]

\* One call of get_recommended_allocation, from arguments to return value.
\* The function has no failing path: every call returns a dict.
Recommend(risk_profile, investment_horizon, inflation_rate) ==
    /\ rec.pc = "idle"
    /\ rec' = [pc |-> "returned",
               risk_profile |-> risk_profile,
               investment_horizon |-> investment_horizon,
               inflation_rate |-> inflation_rate,
               outcome |-> "ok",
               value |-> get_recommended_allocation(
                             risk_profile, investment_horizon,
                             inflation_rate, sum_impl),
               allocations |-> allocations_after(
                                   risk_profile,
                                   AdjustInflation(
                                       AdjustHorizon(BaselineLookup(risk_profile),
                                                     investment_horizon),
                                       inflation_rate))]
    /\ UNCHANGED <<sum_impl, engineVars, appVars>>

\* The caller drops the result; the next call starts from the tables again.
RecommendDone ==
    /\ rec.pc = "returned"
    /\ rec' = RecIdle
    /\ UNCHANGED <<sum_impl, engineVars, appVars>>

(***************************************************************************)
(*                         models.py: arithmetic                           *)
(* Rates, purchasing power and portfolio values are rationals on a grid.   *)
(* A standard normal draw z is an integer k with z = k / 2.                *)
(***************************************************************************)
Abs(n) == IF n < 0 THEN -n ELSE n

Sign(n) == IF n < 0 THEN -1 ELSE 1

\* floor(a * b / c) for a, b >= 0 and c > 0, without forming a * b
MulDivFloor(a, b, c) == (a \div c) * b + ((a % c) * b) \div c

\* a * b / c with the sign of the quotient, magnitude rounded toward zero
MulDiv(a, b, c) == Sign(a) * Sign(b) * Sign(c) * MulDivFloor(Abs(a), Abs(b), Abs(c))

RECURSIVE SeqSum(_)
SeqSum(s) == IF s = <<>> THEN 0 ELSE s[1] + SeqSum(Tail(s))

(***************************************************************************)
(*                     numpy's process-wide generator                      *)
(* Until np.random.seed is called the generator is seeded from OS entropy: *)
(* any draw is possible.  After np.random.seed(42) the draws are the fixed *)
(* stream of that seed, read from position pos.                            *)
(***************************************************************************)
\* the largest |k| an entropy-seeded draw takes in the model
ZBig == 20

ZDraws == {-ZBig, 0, ZBig}

\* standard normals of seed 42, in halves (0.4967, -0.1383, 0.6477, 1.5230,
\* -0.2342, -0.2341, 1.5792, 0.7674, -0.4695, 0.5426, -0.4634, -0.4657,
\* 0.2420, -1.9133, -1.7249, -0.5623, -1.0128, 0.3142, -0.9080, -1.4123)
Stream42 ==
    <<1, 0, 1, 3, 0, 0, 3, 2, -1, 1, -1, -1, 0, -4, -3, -1, -2, 1, -2, -3>>

RngInit == [mode |-> "entropy", pos |-> 0]

\* Seeded with a slip: np.random.seed() without the 42 seeds from OS entropy
Seeded_FromEntropy == [mode |-> "entropy", pos |-> 0]

\* np.random.seed(42)
Seeded == [mode |-> "seeded", pos |-> 0]

\* the values the next normal draw can take
DrawSet(g) ==
    IF g.mode = "entropy" THEN ZDraws
    ELSE IF g.pos < Len(Stream42) THEN {Stream42[g.pos + 1]}
    ELSE {}

\* the generator after one draw
Advance(g) == IF g.mode = "entropy" THEN g ELSE [g EXCEPT !.pos = @ + 1]

\* the stream table covers n more draws
CanDraw(g, n) == g.mode = "entropy" \/ g.pos + n <= Len(Stream42)

(***************************************************************************)
(*                     forecast_inflation (models.py)                      *)
(***************************************************************************)
\* the longest forecast the model runs
MaxPeriods == 3

\* grid of the forecast rates: one percent is FUnit. Every step divides the
\* distance to the target by 5 and adds a quarter-percent multiple, so
\* MaxPeriods steps stay on the grid.
FUnit == 4 * 5 ^ MaxPeriods

\* inflation_data['current_rate'] and ['target_rate'], in percent
CurrentRates == {1, 10, 15}

TargetRates == {4, 14}

Max2(a, b) == IF b > a THEN b ELSE a

Min2(a, b) == IF b < a THEN b ELSE a

\* mean_reversion with a slip: the difference taken the other way round
mean_reversion_SignSlip(last_rate, target_rate) == (last_rate - target_rate) \div 5

\* reversion_speed * (target_rate - last_rate), reversion_speed = 0.2
mean_reversion(last_rate, target_rate) == (target_rate - last_rate) \div 5

\* np.random.normal(0, volatility), volatility = 0.5, for the draw z = k/2
shock(k) == (k * FUnit) \div 4

\* Clamp with a slip: the upper bound left out
Clamp_LowerOnly(next_rate) == Max2(1 * FUnit, next_rate)

\* max(1.0, min(12.0, next_rate))
Clamp(next_rate) == Max2(1 * FUnit, Min2(12 * FUnit, next_rate))

\* one pass of the loop body: the rate appended and carried to the next pass
next_rate(last_rate, target_rate, k) ==
    Clamp(last_rate + mean_reversion(last_rate, target_rate) + shock(k))

Idle == [op |-> "idle"]

NoRet == [op |-> "none"]

\* entry: the locals before the loop
CallForecast(current_rate, target_rate, periods) ==
    /\ frame.op = "idle"
    /\ CanDraw(rng, periods)
    /\ frame' = [op |-> "forecast",
                 rng_at_call |-> rng,
                 current_rate |-> current_rate * FUnit,
                 target_rate |-> target_rate * FUnit,
                 periods |-> periods,
                 last_rate |-> current_rate * FUnit,
                 shocks |-> <<>>,
                 forecasted_rates |-> <<>>]
    /\ ret' = NoRet
    /\ UNCHANGED <<rng, parked, allocVars, appVars>>

\* one iteration of "for i in range(periods)"; shocks records the draws
ForecastStep ==
    /\ frame.op = "forecast"
    /\ Len(frame.forecasted_rates) < frame.periods
    /\ \E k \in DrawSet(rng) :
         LET nr == next_rate(frame.last_rate, frame.target_rate, k)
         IN  frame' = [frame EXCEPT
                         !.forecasted_rates = Append(@, nr),
                         !.shocks = Append(@, k),
                         !.last_rate = nr]
    /\ rng' = Advance(rng)
    /\ ret' = ret
    /\ UNCHANGED <<parked, allocVars, appVars>>

\* expected_average with a slip: the current rate counted as an entry
expected_average_OffByOne(forecasted_rates) ==
    [num |-> SeqSum(forecasted_rates), den |-> Len(forecasted_rates) + 1]

\* sum(forecasted_rates) / len(forecasted_rates), kept as a fraction
expected_average(forecasted_rates) ==
    [num |-> SeqSum(forecasted_rates), den |-> Len(forecasted_rates)]

\* after the loop: the forecast dict, or ZeroDivisionError from the mean of
\* an empty list
ForecastReturn ==
    /\ frame.op = "forecast"
    /\ Len(frame.forecasted_rates) >= frame.periods
    /\ ret' = IF Len(frame.forecasted_rates) = 0
              THEN [op |-> "forecast", outcome |-> "ZeroDivisionError",
                    rng_at_call |-> frame.rng_at_call,
                    current_rate |-> frame.current_rate,
                    target_rate |-> frame.target_rate,
                    periods |-> frame.periods]
              ELSE [op |-> "forecast", outcome |-> "ok",
                    rng_at_call |-> frame.rng_at_call,
                    current_rate |-> frame.current_rate,
                    target_rate |-> frame.target_rate,
                    periods |-> frame.periods,
                    shocks |-> frame.shocks,
                    rates |-> frame.forecasted_rates,
                    expected_average |-> expected_average(frame.forecasted_rates)]
    /\ frame' = Idle
    /\ UNCHANGED <<rng, parked, allocVars, appVars>>

(***************************************************************************)
(*                     simulate_scenarios (models.py)                      *)
(* Yearly rates are in fortieths of a percent, so that                      *)
(* current * (1.2 + 0.15 z) is on the grid for z = k/2.  Purchasing power  *)
(* is in units of 1 / PPOne.                                               *)
(***************************************************************************)
\* the longest horizon simulate_scenarios is run for
MaxSimYears == 2

\* 100 percent in rate units: 1 + rate/100 = (Hundred + rate) / Hundred
Hundred == 100 * 40

PPOne == 10 ^ 6

ScenarioNames == <<"Expected", "High Inflation", "Low Inflation">>

\* current_inflation * (0.95 + 0.1 z), * (1.2 + 0.15 z), * (0.7 + 0.1 z)
scenario_rate(s, current_inflation, k) ==
    CASE s = 1 -> current_inflation * (38 + 2 * k)
      [] s = 2 -> current_inflation * (48 + 3 * k)
      [] s = 3 -> current_inflation * (28 + 2 * k)

\* next_pp with a slip: the rate taken as a fraction, not as a percentage
next_pp_NoPercent(last_pp, yearly_inflation) ==
    MulDiv(last_pp, 40, 40 + yearly_inflation)

\* next_pp with a slip: multiplied by the inflation factor instead of divided
next_pp_Multiply(last_pp, yearly_inflation) ==
    MulDiv(last_pp, Hundred + yearly_inflation, Hundred)

\* next_pp with a slip: the rate is floored at -99 percent before dividing
next_pp_Floored(last_pp, yearly_inflation) ==
    MulDiv(last_pp, Hundred, Hundred + Max2(yearly_inflation, -99 * 40))

\* purchasing_power[-1] / (1 + yearly_inflation/100)
next_pp(last_pp, yearly_inflation) ==
    MulDiv(last_pp, Hundred, Hundred + yearly_inflation)

\* the inner loop over one scenario's path, from purchasing_power = [1.0]
RECURSIVE purchasing_power(_, _)
purchasing_power(inflation_path, pp) ==
    IF Len(pp) > Len(inflation_path) THEN pp
    ELSE purchasing_power(inflation_path,
                          Append(pp, next_pp(pp[Len(pp)], inflation_path[Len(pp)])))

\* a year of the path makes the divisor 1 + rate/100 zero
DividesByZero(inflation_path) ==
    \E t \in 1..Len(inflation_path) : Hundred + inflation_path[t] = 0

CallSimulate(current_rate, years) ==
    /\ frame.op = "idle"
    /\ CanDraw(rng, 3 * years)
    /\ frame' = [op |-> "simulate",
                 rng_at_call |-> rng,
                 current_inflation |-> current_rate,
                 years |-> years,
                 paths |-> <<<<>>, <<>>, <<>>>>]
    /\ ret' = NoRet
    /\ UNCHANGED <<rng, parked, allocVars, appVars>>

\* the scenario whose list comprehension is being filled: they are built in
\* the order Expected, High Inflation, Low Inflation
FillingScenario(f) ==
    IF Len(f.paths[1]) < f.years THEN 1
    ELSE IF Len(f.paths[2]) < f.years THEN 2
    ELSE IF Len(f.paths[3]) < f.years THEN 3
    ELSE 0

\* one np.random.randn() of the list comprehensions
SimulateDraw ==
    /\ frame.op = "simulate"
    /\ FillingScenario(frame) # 0
    /\ \E k \in DrawSet(rng) :
         LET s == FillingScenario(frame)
         IN  frame' = [frame EXCEPT
                 !.paths[s] = Append(@, scenario_rate(s, frame.current_inflation, k))]
    /\ rng' = Advance(rng)
    /\ ret' = ret
    /\ UNCHANGED <<parked, allocVars, appVars>>

\* the "for scenario in scenarios" loop and the return
SimulateReturn ==
    /\ frame.op = "simulate"
    /\ FillingScenario(frame) = 0
    /\ ret' = IF \E s \in 1..3 : DividesByZero(frame.paths[s])
              THEN [op |-> "simulate", outcome |-> "ZeroDivisionError",
                    rng_at_call |-> frame.rng_at_call,
                    current_inflation |-> frame.current_inflation,
                    years |-> frame.years]
              ELSE [op |-> "simulate", outcome |-> "ok",
                    rng_at_call |-> frame.rng_at_call,
                    current_inflation |-> frame.current_inflation,
                    years |-> frame.years,
                    scenarios |->
                      [s \in 1..3 |->
                        [name |-> ScenarioNames[s],
                         inflation_path |-> frame.paths[s],
                         purchasing_power |->
                            purchasing_power(frame.paths[s], <<PPOne>>)]]]
    /\ frame' = Idle
    /\ UNCHANGED <<rng, parked, allocVars, appVars>>

(***************************************************************************)
(*                analyze_portfolio_performance (models.py)                *)
(* Weights are in hundredths, the per-asset returns and volatilities in    *)
(* tenths of a percent, the scenario multipliers in tenths: an adjusted    *)
(* return or volatility is in units of 1e-4 percent.  Growth factors and   *)
(* exp are in units of 1 / E4; values are whole currency units.            *)
(***************************************************************************)
E4 == 10 ^ 4

\* the longest horizon analyze_portfolio_performance is run for
MaxYears == 3

expected_returns(asset) ==
    CASE asset = "Equity"      -> 120
      [] asset = "Debt"        -> 75
      [] asset = "Gold"        -> 80
      [] asset = "Real Estate" -> 90
      [] asset = "Cash"        -> 55

volatility(asset) ==
    CASE asset = "Equity"      -> 180
      [] asset = "Debt"        -> 60
      [] asset = "Gold"        -> 120
      [] asset = "Real Estate" -> 100
      [] asset = "Cash"        -> 5

RECURSIVE SetSum(_, _)
SetSum(S, f) ==
    IF S = {} THEN 0
    ELSE LET x == CHOOSE y \in S : TRUE
         IN  f[x] + SetSum(S \ {x}, f)

\* sum(expected_returns[asset] * allocation for asset, allocation in items())
portfolio_return(portfolio_allocation) ==
    SetSum(DOMAIN portfolio_allocation,
           [a \in DOMAIN portfolio_allocation |->
               expected_returns(a) * portfolio_allocation[a]])

\* sum(volatility[asset] * allocation for asset, allocation in items())
portfolio_volatility(portfolio_allocation) ==
    SetSum(DOMAIN portfolio_allocation,
           [a \in DOMAIN portfolio_allocation |->
               volatility(a) * portfolio_allocation[a]])

\* the three scenario dicts: name, return_multiplier, volatility_multiplier
\* (multipliers in tenths)
PortfolioScenarios ==
    <<[name |-> "Expected",    return_multiplier |-> 10, volatility_multiplier |-> 10],
      [name |-> "Optimistic",  return_multiplier |-> 12, volatility_multiplier |-> 8],
      [name |-> "Pessimistic", return_multiplier |-> 8,  volatility_multiplier |-> 12]>>

\* adjusted_return with a slip: the scenario's volatility multiplier is used
adjusted_return_VolatilityMultiplier(pr, s) ==
    pr * PortfolioScenarios[s].volatility_multiplier

adjusted_return(pr, s) == pr * PortfolioScenarios[s].return_multiplier

adjusted_volatility(pv, s) == pv * PortfolioScenarios[s].volatility_multiplier

\* exp(x) for x in units of 1/E4: the Taylor polynomial of degree 3
ExpFix(x) ==
    LET x2 == (x * x) \div E4
        x3 == (x2 * x) \div E4
    IN  E4 + x + x2 \div 2 + x3 \div 6

\* LogDefined with a slip: the logarithm taken to be a number everywhere
LogDefined_Always(adj_return) == TRUE

\* np.log(1 + adjusted_return/100) is a number (-inf at 0 included): for a
\* negative argument np.log gives nan, and so does everything computed from it
LogDefined(adj_return) == 10 ^ 6 + adj_return >= 0

\* np.random.lognormal(mean = log(1 + adjusted_return/100) - 0.5 sigma^2,
\*                     sigma = adjusted_volatility/100)
\*   = exp(mean + sigma z) = (1 + adjusted_return/100) * exp(sigma z - 0.5 sigma^2)
\* for the normal draw z = k/2
lognormal(adj_return, adj_volatility, k) ==
    LET sigma == adj_volatility \div 100
        base  == (10 ^ 6 + adj_return) \div 100
        x     == (sigma * k) \div 2 - (sigma * sigma) \div (2 * E4)
    IN  (base * ExpFix(x)) \div E4

\* yearly_return = lognormal(...) - 1
yearly_return(adj_return, adj_volatility, k) ==
    lognormal(adj_return, adj_volatility, k) - E4

\* next_value with a slip: multiplied by the return, not by the growth factor
next_value_ReturnOnly(last_value, yr) == MulDiv(last_value, yr, E4)

\* next_value = values[-1] * (1 + yearly_return)
next_value(last_value, yr) == MulDiv(last_value, E4 + yr, E4)

DefaultAllocation ==
    Table(30, 30, 15, 15, 10)

\* weights (1, 0, 0, 0, -25): blended return -125.5 percent, blended
\* volatility 5.5 percent
ShortCashAllocation ==
    Table(100, 0, 0, 0, -2500)

\* weights (1.5, -6, 0.5, 0, 6) whose blended volatility is 0 and blended
\* return 10 percent, and (1, -3, 0, 0, 0) with return -10.5 percent
ZeroVolAllocation ==
    Table(150, -600, 50, 0, 600)

ShortDebtAllocation ==
    Table(100, -300, 0, 0, 0)

NoWeights ==
    Table(0, 0, 0, 0, 0)

\* a dict with a key that is none of the five asset classes
CryptoAllocation ==
    [a \in {"Equity", "Debt", "Gold", "Real Estate", "Crypto"} |->
        CASE a = "Equity"      -> 30
          [] a = "Debt"        -> 30
          [] a = "Gold"        -> 15
          [] a = "Real Estate" -> 15
          [] a = "Crypto"      -> 10]

AllocationInputs == {DefaultAllocation, ZeroVolAllocation, CryptoAllocation}

\* expected_returns[asset] and volatility[asset] find every key of the dict;
\* otherwise the subscript raises KeyError
KnownKeys(portfolio_allocation) == DOMAIN portfolio_allocation \subseteq Assets

InitialInvestments == {0, 100000}

FillingPath(f) ==
    IF Len(f.values[1]) < f.years + 1 THEN 1
    ELSE IF Len(f.values[2]) < f.years + 1 THEN 2
    ELSE IF Len(f.values[3]) < f.years + 1 THEN 3
    ELSE 0

\* entry: the two weighted sums, up to np.random.seed; a key outside the
\* five ends the call with the KeyError of the first weighted sum
CallAnalyze(initial_investment, portfolio_allocation, years) ==
    /\ frame.op = "idle"
    /\ IF KnownKeys(portfolio_allocation)
       THEN /\ frame' = [op |-> "analyze",
                         rng_at_call |-> rng,
                         pc |-> "seed",
                         initial_investment |-> initial_investment,
                         portfolio_allocation |-> portfolio_allocation,
                         years |-> years,
                         portfolio_return |-> portfolio_return(portfolio_allocation),
                         portfolio_volatility |-> portfolio_volatility(portfolio_allocation),
                         values |-> [s \in 1..3 |-> <<initial_investment>>],
                         returns |-> [s \in 1..3 |-> <<>>],
                         nan |-> [s \in 1..3 |-> FALSE]]
            /\ ret' = NoRet
       ELSE /\ frame' = Idle
            /\ ret' = [op |-> "analyze", outcome |-> "KeyError",
                       rng_at_call |-> rng,
                       initial_investment |-> initial_investment,
                       portfolio_allocation |-> portfolio_allocation,
                       years |-> years]
    /\ UNCHANGED <<rng, parked, allocVars, appVars>>

\* np.random.seed(42)
AnalyzeSeed ==
    /\ frame.op = "analyze"
    /\ frame.pc = "seed"
    /\ rng' = Seeded
    /\ frame' = [frame EXCEPT !.pc = "loop"]
    /\ ret' = ret
    /\ UNCHANGED <<parked, allocVars, appVars>>

\* one pass of "for _ in range(years)" of the scenario being filled; returns
\* records the yearly_return drawn for each value.  Where the logarithm is
\* nan the yearly return and the value are nan: nan[s] says so, and the
\* entries appended to returns[s] and values[s] are a 0 that stands for nan
AnalyzeStep ==
    /\ frame.op = "analyze"
    /\ frame.pc = "loop"
    /\ FillingPath(frame) # 0
    /\ \E k \in DrawSet(rng) :
         LET s  == FillingPath(frame)
             ar == adjusted_return(frame.portfolio_return, s)
             yr == yearly_return(ar,
                                 adjusted_volatility(frame.portfolio_volatility, s),
                                 k)
         IN  IF LogDefined(ar)
             THEN frame' = [frame EXCEPT
                     !.values[s] = Append(@, next_value(@[Len(@)], yr)),
                     !.returns[s] = Append(@, yr)]
             ELSE frame' = [frame EXCEPT
                     !.values[s] = Append(@, 0),
                     !.returns[s] = Append(@, 0),
                     !.nan[s] = TRUE]
    /\ rng' = Advance(rng)
    /\ ret' = ret
    /\ UNCHANGED <<parked, allocVars, appVars>>

AnalyzeReturn ==
    /\ frame.op = "analyze"
    /\ frame.pc = "loop"
    /\ FillingPath(frame) = 0
    /\ ret' = [op |-> "analyze", outcome |-> "ok",
               rng_at_call |-> frame.rng_at_call,
               initial_investment |-> frame.initial_investment,
               portfolio_allocation |-> frame.portfolio_allocation,
               years |-> frame.years,
               portfolio_return |-> frame.portfolio_return,
               portfolio_volatility |-> frame.portfolio_volatility,
               scenarios |->
                 [s \in 1..3 |->
                   [name |-> PortfolioScenarios[s].name,
                    values |-> frame.values[s],
                    returns |-> frame.returns[s],
                    nan |-> frame.nan[s]]]]
    /\ frame' = Idle
    /\ UNCHANGED <<rng, parked, allocVars, appVars>>

(***************************************************************************)
(*            calculate_portfolio_real_performance (models.py)             *)
(* Returns are in units of 1e-3 percent (weights in hundredths times the   *)
(* per-asset returns in tenths of a percent), the inflation rate in tenths *)
(* of a percent, the multipliers in units of 1 / E4.                       *)
(***************************************************************************)
\* the inflation rates the real performance is asked for, in tenths
RealRates == {0, 50, 150}

\* real_return = nominal_return - inflation_rate
real_return(nominal_return, inflation_rate) == nominal_return - 100 * inflation_rate

\* g ** years for a growth factor g in units of 1 / E4
RECURSIVE Power(_, _)
Power(g, years) ==
    IF years = 0 THEN E4 ELSE MulDiv(Power(g, years - 1), g, E4)

\* (1 + r/100) ** years
multiplier(r, years) == Power((10 ^ 5 + r) \div 10, years)

\* The whole call: it draws nothing and has no loop.  A key outside the five
\* ends it with the KeyError of the weighted sum.
calculate_portfolio_real_performance(portfolio_allocation, inflation_rate, years) ==
    /\ frame.op = "idle"
    /\ ret' = IF KnownKeys(portfolio_allocation)
              THEN LET nominal_return == portfolio_return(portfolio_allocation)
                   IN  [op |-> "real_performance", outcome |-> "ok",
                        rng_at_call |-> rng,
                        portfolio_allocation |-> portfolio_allocation,
                        inflation_rate |-> inflation_rate,
                        years |-> years,
                        nominal_return |-> nominal_return,
                        real_return |-> real_return(nominal_return, inflation_rate),
                        nominal_multiplier |-> multiplier(nominal_return, years),
                        real_multiplier |->
                            multiplier(real_return(nominal_return, inflation_rate), years)]
              ELSE [op |-> "real_performance", outcome |-> "KeyError",
                    rng_at_call |-> rng,
                    portfolio_allocation |-> portfolio_allocation,
                    inflation_rate |-> inflation_rate,
                    years |-> years]
    /\ frame' = Idle
    /\ UNCHANGED <<rng, parked, allocVars, appVars>>

(***************************************************************************)
(*        analyze_portfolio_performance in binary64, sigma = 0             *)
(* When the blended volatility is 0.0 the lognormal draw is                *)
(* exp(log(1 + adjusted_return/100) + 0.0 * z): no normal draw enters the  *)
(* value, and every other operation is a binary64 +, -, * or /.  Those are *)
(* modelled bit for bit.  exp and log come from the C library and are not  *)
(* correctly rounded: exp(log(x)) is x or one of its two neighbours,       *)
(* depending on the build.                                                 *)
(***************************************************************************)
\* the Python float n / 10 (12.0, 7.5, 0.5, 1.2, 0.8, ...)
Tenths(n) == SDiv(SInt(n), SInt(10))

\* the Python float n / 100 of a weight
Weight64(n) == SDiv(SInt(n), SInt(100))

\* sum() of a sequence of floats, left to right from 0
RECURSIVE SeqNaiveSum(_, _, _)
SeqNaiveSum(xs, i, acc) ==
    IF i > Len(xs) THEN acc
    ELSE SeqNaiveSum(xs, i + 1, SAdd(acc, xs[i]))

\* sum() of a sequence of floats with Neumaier compensation
RECURSIVE SeqCompensatedSum(_, _, _)
SeqCompensatedSum(xs, i, cs) ==
    IF i > Len(xs) THEN
        (IF FIsZero(cs[2].mag) THEN cs[1] ELSE SAdd(cs[1], cs[2]))
    ELSE SeqCompensatedSum(xs, i + 1, CsAdd(cs, xs[i]))

PySum64(xs, impl) ==
    IF impl = "plain" THEN SeqNaiveSum(xs, 1, SPos(FZero))
    ELSE SeqCompensatedSum(xs, 1, <<SPos(FZero), SPos(FZero)>>)

\* sum(expected_returns[asset] * allocation for ... in items())
portfolio_return64(portfolio_allocation, impl) ==
    PySum64([i \in 1..Len(AssetOrder) |->
                SMul(Tenths(expected_returns(AssetOrder[i])),
                     Weight64(portfolio_allocation[AssetOrder[i]]))], impl)

\* sum(volatility[asset] * allocation for ... in items())
portfolio_volatility64(portfolio_allocation, impl) ==
    PySum64([i \in 1..Len(AssetOrder) |->
                SMul(Tenths(volatility(AssetOrder[i])),
                     Weight64(portfolio_allocation[AssetOrder[i]]))], impl)

\* portfolio_return * scenario['return_multiplier']
adjusted_return64(pr, s) ==
    SMul(pr, Tenths(PortfolioScenarios[s].return_multiplier))

\* how far, in units of the last place, this build's exp(log(x)) is from x
Ulps == {-1, 0, 1}

\* the double n units of the last place above (below) the positive double x
Nudge(x, n) ==
    IF n = 0 THEN x
    ELSE IF n = 1 THEN
        LET w == WAdd(FSig(x), <<0, 1>>)
        IN  IF w[1] >= HiMax THEN [hi |-> HiMin, lo |-> 0, e |-> x.e + 1]
            ELSE [hi |-> w[1], lo |-> w[2], e |-> x.e]
    ELSE
        IF x.hi = HiMin /\ x.lo = 0
        THEN [hi |-> HiMax - 1, lo |-> Limb - 1, e |-> x.e - 1]
        ELSE LET w == WSub(FSig(x), <<0, 1>>)
             IN  [hi |-> w[1], lo |-> w[2], e |-> x.e]

\* np.random.lognormal(mean = np.log(x) - 0.5 * 0.0 ** 2, sigma = 0.0)
\*   = exp(log(x) + 0.0 * z) for x > 0; log(1.0) = 0.0 and exp(0.0) = 1.0
\* are exact
lognormal64(x, ulps) ==
    IF x.mag = FInt(1) THEN x ELSE SPos(Nudge(x.mag, ulps))

\* yearly_return with a slip: the "- 1" left out
yearly_return64_GrowthFactor(adj_return, ulps) ==
    lognormal64(SAdd(SInt(1), SDiv(adj_return, SInt(100))), ulps)

\* yearly_return = np.random.lognormal(...) - 1
yearly_return64(adj_return, ulps) ==
    SSub(lognormal64(SAdd(SInt(1), SDiv(adj_return, SInt(100))), ulps), SInt(1))

\* next_value = values[-1] * (1 + yearly_return)
next_value64(last_value, yr) == SMul(last_value, SAdd(SInt(1), yr))

ZeroVolAllocations == {ZeroVolAllocation, ShortDebtAllocation, NoWeights}

\* the two weighted sums of each input, under either sum()
Blend64 ==
    [a \in ZeroVolAllocations |->
        [i \in SumImpls |->
            [portfolio_return |-> portfolio_return64(a, i),
             portfolio_volatility |-> portfolio_volatility64(a, i)]]]

\* exp(log(.)) has not been evaluated yet for a scenario
NotYet == 2

\* entry: the two weighted sums, up to np.random.seed; libm[s] will record
\* how the build rounds exp(log(.)) at scenario s's argument
CallAnalyze64(initial_investment, portfolio_allocation, years) ==
    /\ frame.op = "idle"
    /\ frame' = [op |-> "analyze64",
                 rng_at_call |-> rng,
                 pc |-> "seed",
                 initial_investment |-> initial_investment,
                 portfolio_allocation |-> portfolio_allocation,
                 years |-> years,
                 libm |-> [s \in 1..3 |-> NotYet],
                 portfolio_return |->
                     Blend64[portfolio_allocation][sum_impl].portfolio_return,
                 portfolio_volatility |->
                     Blend64[portfolio_allocation][sum_impl].portfolio_volatility,
                 values |-> [s \in 1..3 |-> <<SInt(initial_investment)>>],
                 returns |-> [s \in 1..3 |-> <<>>]]
    /\ ret' = NoRet
    /\ UNCHANGED <<rng, parked, allocVars, appVars>>

\* np.random.seed(42)
AnalyzeSeed64 ==
    /\ frame.op = "analyze64"
    /\ frame.pc = "seed"
    /\ rng' = Seeded
    /\ frame' = [frame EXCEPT !.pc = "loop"]
    /\ ret' = ret
    /\ UNCHANGED <<parked, allocVars, appVars>>

\* one pass of "for _ in range(years)" when sigma is 0.0: the draw is
\* consumed and multiplied by sigma; exp(log(.)) is rounded as it was in the
\* scenario's earlier passes
AnalyzeStep64 ==
    /\ frame.op = "analyze64"
    /\ frame.pc = "loop"
    /\ FillingPath(frame) # 0
    /\ FIsZero(frame.portfolio_volatility.mag)
    /\ DrawSet(rng) # {}
    /\ \E s \in {FillingPath(frame)}, u \in Ulps :
         /\ frame.libm[s] \in {NotYet, u}
         /\ \E yr \in {yearly_return64(
                          adjusted_return64(frame.portfolio_return, s), u)} :
              frame' = [frame EXCEPT
                  !.libm[s] = u,
                  !.values[s] = Append(@, next_value64(@[Len(@)], yr)),
                  !.returns[s] = Append(@, yr)]
    /\ rng' = Advance(rng)
    /\ ret' = ret
    /\ UNCHANGED <<parked, allocVars, appVars>>

AnalyzeReturn64 ==
    /\ frame.op = "analyze64"
    /\ frame.pc = "loop"
    /\ FillingPath(frame) = 0
    /\ ret' = [op |-> "analyze64", outcome |-> "ok",
               rng_at_call |-> frame.rng_at_call,
               initial_investment |-> frame.initial_investment,
               portfolio_allocation |-> frame.portfolio_allocation,
               years |-> frame.years,
               libm |-> frame.libm,
               portfolio_return |-> frame.portfolio_return,
               portfolio_volatility |-> frame.portfolio_volatility,
               scenarios |->
                 [s \in 1..3 |->
                   [name |-> PortfolioScenarios[s].name,
                    values |-> frame.values[s],
                    returns |-> frame.returns[s]]]]
    /\ frame' = Idle
    /\ UNCHANGED <<rng, parked, allocVars, appVars>>

(***************************************************************************)
(*                       Two dashboard sessions                            *)
(* The dashboard runs each browser session's script in a thread of one     *)
(* server process.  The threads have their own locals and results but      *)
(* share the numpy module, and with it np.random's generator.  frame and   *)
(* ret belong to the session that is running, parked to the other one.     *)
(***************************************************************************)
\* the interpreter hands the processor to the other session's thread; a
\* draw, a seeding and a list append are each done without interruption
Switch ==
    /\ frame' = parked.frame
    /\ ret' = parked.ret
    /\ parked' = [frame |-> frame, ret |-> ret]
    /\ UNCHANGED <<rng, allocVars, appVars>>

\* the sessions' script runs do not overlap: the other session runs only
\* between two calls of this one
TakeTurns ==
    /\ frame.op = "idle"
    /\ Switch

(***************************************************************************)
(*        The dashboard: user store, sessions, login, profile form         *)
(* db holds the rows of the tables users, financial_profiles and           *)
(* portfolios in the order of their ids.  Every function of db_manager.py  *)
(* opens its own database session, so each query and each commit is one    *)
(* step and the steps of two browser sessions interleave.  A row is a      *)
(* record, None is the record NoRow.  Portfolio weights are in hundredths  *)
(* (the slider value x stands for the stored float x/100).                 *)
(***************************************************************************)
SessionIds == {1, 2}

Usernames == {"ann", "bob"}

\* what the text inputs of the login and register forms can hold
TypedNames == Usernames \cup {""}

TypedPasswords == {"", "pw"}

TypedConfirmations == {"pw", "pq"}

\* None, and "if row:" for a row or None
NoRow == [id |-> 0]

IsRow(row) == row.id # 0

\* query(...).first()
First(rows) == IF rows = <<>> THEN NoRow ELSE rows[1]

\* session.query(User).filter(User.username == username)
UsersNamed(username) == SelectSeq(db.users, LAMBDA u : u.username = username)

\* session.query(FinancialProfile).filter(FinancialProfile.user_id == user_id)
ProfilesOf(user_id) == SelectSeq(db.profiles, LAMBDA r : r.user_id = user_id)

\* session.query(Portfolio).filter(Portfolio.user_id == user_id)
PortfoliosOf(user_id) == SelectSeq(db.portfolios, LAMBDA r : r.user_id = user_id)

\* the row create_default_profile adds; id is the autoincrement key
DefaultProfile(id, user_id) ==
    [id |-> id, user_id |-> user_id, income |-> 50000, expenses |-> 30000,
     investments |-> 100000, age |-> 30, risk_tolerance |-> "Moderate",
     investment_horizon |-> 10]

\* default_allocation of create_default_portfolio
default_allocation == Table(50, 30, 10, 5, 5)

DefaultPortfolio(id, user_id) ==
    [id |-> id, user_id |-> user_id, allocation |-> default_allocation]

\* st.session_state.get('authenticated', False)
is_authenticated(state) ==
    "authenticated" \in DOMAIN state /\ state["authenticated"]

\* del st.session_state[key] for the keys that are present
Without(state, keys) == [k \in DOMAIN state \ keys |-> state[k]]

\* st.session_state[key] = value
With(state, key, value) == (key :> value) @@ state

NoCall == [op |-> "idle"]

EmptyState == [k \in {} |-> FALSE]

InitApp ==
    /\ db = [users |-> <<>>, profiles |-> <<>>, portfolios |-> <<>>]
    /\ web = [s \in SessionIds |->
                [state |-> EmptyState, call |-> NoCall, last |-> "none"]]

\* the function on top of the call stack of session record w, and its caller
Top(w) == w.call.stack[Len(w.call.stack)]

Caller(w) == w.call.stack[Len(w.call.stack) - 1]

Pop(stack) == SubSeq(stack, 1, Len(stack) - 1)

Running(w, function, pc) ==
    /\ w.call.op # "idle"
    /\ Top(w) = function
    /\ w.call.pc = pc

\* a script run that has just entered create_user(username)
EnterCreateUser(op, stack, username) ==
    [op |-> op, stack |-> Append(stack, "create_user"), pc |-> "query",
     username |-> username, user |-> NoRow, profile |-> NoRow,
     portfolio |-> NoRow, created |-> FALSE]

\* the session record after the script run ended with message last
Ended(w, state, last) == [state |-> state, call |-> NoCall, last |-> last]

\* login_page, the Login button (auth.py 25-51).  get_user_by_username
\* answers None also when the store raises OperationalError, so the except
\* branches of login_page are not reached.
Login(s, username, password) ==
    /\ web[s].call.op = "idle"
    /\ ~is_authenticated(web[s].state)
    /\ LET w == web[s]
           user == First(UsersNamed(username))
       IN  web' = [web EXCEPT ![s] =
                IF username # "" /\ password # ""
                THEN IF IsRow(user)
                     THEN Ended(w, With(With(w.state, "username", username),
                                        "authenticated", TRUE),
                                "Welcome back")
                     ELSE Ended(w, w.state, "User not found")
                ELSE Ended(w, w.state, "Please enter both")]
    /\ UNCHANGED <<db, allocVars, engineVars>>

\* login_page, the Register button up to the call of create_user
\* (auth.py 59-70)
Register(s, username, password, password_confirm) ==
    /\ web[s].call.op = "idle"
    /\ ~is_authenticated(web[s].state)
    /\ LET w == web[s]
           existing_user == First(UsersNamed(username))
       IN  web' = [web EXCEPT ![s] =
                IF username # "" /\ password # ""
                THEN IF password # password_confirm
                     THEN Ended(w, w.state, "Passwords do not match")
                     ELSE IF IsRow(existing_user)
                          THEN Ended(w, w.state, "Username already exists")
                          ELSE [w EXCEPT !.call =
                                  EnterCreateUser("register", <<"login_page">>,
                                                  username)]
                ELSE Ended(w, w.state, "Username and password are required")]
    /\ UNCHANGED <<db, allocVars, engineVars>>

\* The Login button while the store cannot be reached: get_db_session hands
\* out a session on a new, empty in-memory database (database.py 173-194),
\* so get_user_by_username finds nobody
LoginOffline(s, username, password) ==
    /\ web[s].call.op = "idle"
    /\ ~is_authenticated(web[s].state)
    /\ web' = [web EXCEPT ![s] =
                  IF username # "" /\ password # ""
                  THEN Ended(web[s], web[s].state, "User not found")
                  ELSE Ended(web[s], web[s].state, "Please enter both")]
    /\ UNCHANGED <<db, allocVars, engineVars>>

\* The Register button while the store cannot be reached: nobody has the
\* name in the empty in-memory database, and create_user, create_default_
\* profile and create_default_portfolio each commit into a database of
\* their own that is dropped with the session; create_user returns its user
RegisterOffline(s, username, password, password_confirm) ==
    /\ web[s].call.op = "idle"
    /\ ~is_authenticated(web[s].state)
    /\ LET w == web[s]
       IN  web' = [web EXCEPT ![s] =
                IF username # "" /\ password # ""
                THEN IF password # password_confirm
                     THEN Ended(w, w.state, "Passwords do not match")
                     ELSE Ended(w, With(With(w.state, "username", username),
                                        "authenticated", TRUE),
                                "Account created")
                ELSE Ended(w, w.state, "Username and password are required")]
    /\ UNCHANGED <<db, allocVars, engineVars>>

\* create_user returns user (NoRow for None) to its caller: login_page
\* (auth.py 70-79) or get_user_financial_data (data_manager.py 39-41, where
\* None.id raises AttributeError and ends the script run)
AfterCreateUser(w, user) ==
    IF Caller(w) = "login_page"
    THEN IF IsRow(user)
         THEN Ended(w, With(With(w.state, "username", w.call.username),
                            "authenticated", TRUE),
                    "Account created")
         ELSE Ended(w, w.state, "Error creating account")
    ELSE IF IsRow(user)
         THEN [w EXCEPT !.call.stack = Pop(@), !.call.pc = "profiles",
                        !.call.user = user]
         ELSE Ended(w, w.state, "AttributeError")

\* create_default_portfolio returns to create_user (which returns the user)
\* or to get_user_financial_data (data_manager.py 44)
AfterCreatePortfolio(w, portfolio) ==
    IF Caller(w) = "create_user"
    THEN AfterCreateUser([w EXCEPT !.call.stack = Pop(@)], w.call.user)
    ELSE [w EXCEPT !.call.stack = Pop(@), !.call.pc = "cache",
                   !.call.portfolio = portfolio]

\* a script run that enters create_default_portfolio
EnterCreatePortfolio(w) ==
    [w EXCEPT !.call.stack = Append(@, "create_default_portfolio"),
              !.call.pc = "query"]

\* create_default_profile returns to create_user (db_manager.py 24-25) or to
\* get_user_financial_data (data_manager.py 43-44)
AfterCreateProfile(w, profile) ==
    IF Caller(w) = "create_user"
    THEN EnterCreatePortfolio([w EXCEPT !.call.stack = Pop(@)])
    ELSE LET v == [w EXCEPT !.call.stack = Pop(@), !.call.profile = profile]
         IN  IF IsRow(v.call.portfolio)
             THEN [v EXCEPT !.call.pc = "cache"]
             ELSE EnterCreatePortfolio(v)

\* create_user: the query for an existing user (db_manager.py 16-18)
CreateUserQuery(s) ==
    /\ Running(web[s], "create_user", "query")
    /\ LET w == web[s]
           existing_user == First(UsersNamed(w.call.username))
       IN  web' = [web EXCEPT ![s] =
                IF IsRow(existing_user)
                THEN AfterCreateUser(w, existing_user)
                ELSE [w EXCEPT !.call.pc = "insert"]]
    /\ UNCHANGED <<db, allocVars, engineVars>>

\* create_user: add and commit (db_manager.py 20-24).  username is unique:
\* when the name is taken by now the commit raises IntegrityError, which the
\* "except Exception" turns into None
CreateUserInsert(s) ==
    /\ Running(web[s], "create_user", "insert")
    /\ LET w == web[s]
           user == [id |-> Len(db.users) + 1, username |-> w.call.username]
       IN  IF UsersNamed(w.call.username) # <<>>
           THEN /\ web' = [web EXCEPT ![s] = AfterCreateUser(w, NoRow)]
                /\ db' = db
           ELSE /\ db' = [db EXCEPT !.users = Append(@, user)]
                /\ web' = [web EXCEPT ![s] =
                      [w EXCEPT !.call.user = user, !.call.created = TRUE,
                                !.call.stack = Append(@, "create_default_profile"),
                                !.call.pc = "query"]]
    /\ UNCHANGED <<allocVars, engineVars>>

\* create_default_profile: the query for an existing profile
\* (db_manager.py 65-68)
CreateProfileQuery(s) ==
    /\ Running(web[s], "create_default_profile", "query")
    /\ LET w == web[s]
           existing_profile == First(ProfilesOf(w.call.user.id))
       IN  web' = [web EXCEPT ![s] =
                IF IsRow(existing_profile)
                THEN AfterCreateProfile(w, existing_profile)
                ELSE [w EXCEPT !.call.pc = "insert"]]
    /\ UNCHANGED <<db, allocVars, engineVars>>

\* create_default_profile: add and commit (db_manager.py 70-84)
CreateProfileInsert(s) ==
    /\ Running(web[s], "create_default_profile", "insert")
    /\ LET w == web[s]
           profile == DefaultProfile(Len(db.profiles) + 1, w.call.user.id)
       IN  /\ db' = [db EXCEPT !.profiles = Append(@, profile)]
           /\ web' = [web EXCEPT ![s] = AfterCreateProfile(w, profile)]
    /\ UNCHANGED <<allocVars, engineVars>>

\* create_default_portfolio: the query (db_manager.py 118-121)
CreatePortfolioQuery(s) ==
    /\ Running(web[s], "create_default_portfolio", "query")
    /\ LET w == web[s]
           existing_portfolio == First(PortfoliosOf(w.call.user.id))
       IN  web' = [web EXCEPT ![s] =
                IF IsRow(existing_portfolio)
                THEN AfterCreatePortfolio(w, existing_portfolio)
                ELSE [w EXCEPT !.call.pc = "insert"]]
    /\ UNCHANGED <<db, allocVars, engineVars>>

\* create_default_portfolio: add and commit (db_manager.py 123-140)
CreatePortfolioInsert(s) ==
    /\ Running(web[s], "create_default_portfolio", "insert")
    /\ LET w == web[s]
           portfolio == DefaultPortfolio(Len(db.portfolios) + 1, w.call.user.id)
       IN  /\ db' = [db EXCEPT !.portfolios = Append(@, portfolio)]
           /\ web' = [web EXCEPT ![s] = AfterCreatePortfolio(w, portfolio)]
    /\ UNCHANGED <<allocVars, engineVars>>

\* main() of an authenticated session up to get_user_by_username
\* (app.py 42-55, data_manager.py 34-39): every script run does this
LoadUser(s) ==
    /\ web[s].call.op = "idle"
    /\ is_authenticated(web[s].state)
    /\ LET w == web[s]
           state == IF "username" \in DOMAIN w.state THEN w.state
                    ELSE With(w.state, "username", "default_user")
           user == First(UsersNamed(state["username"]))
           call == EnterCreateUser("load", <<"get_user_financial_data">>,
                                   state["username"])
       IN  web' = [web EXCEPT ![s] =
                [w EXCEPT !.state = state,
                          !.call = IF IsRow(user)
                                   THEN [call EXCEPT !.stack = Pop(@),
                                                     !.pc = "profiles",
                                                     !.user = user]
                                   ELSE call]]
    /\ UNCHANGED <<db, allocVars, engineVars>>

\* get_user_profiles(user.id) (data_manager.py 41)
LoadProfiles(s) ==
    /\ Running(web[s], "get_user_financial_data", "profiles")
    /\ web' = [web EXCEPT ![s].call.profile = First(ProfilesOf(web[s].call.user.id)),
                          ![s].call.pc = "portfolios"]
    /\ UNCHANGED <<db, allocVars, engineVars>>

\* get_user_portfolios(user.id), then lines 43-44: profiles[0] and
\* portfolios[0], or the create_default_ calls where a list is empty
LoadPortfolios(s) ==
    /\ Running(web[s], "get_user_financial_data", "portfolios")
    /\ LET w == [web[s] EXCEPT
                    !.call.portfolio = First(PortfoliosOf(web[s].call.user.id))]
       IN  web' = [web EXCEPT ![s] =
                IF ~IsRow(w.call.profile)
                THEN [w EXCEPT !.call.stack = Append(@, "create_default_profile"),
                               !.call.pc = "query"]
                ELSE IF ~IsRow(w.call.portfolio)
                     THEN EnterCreatePortfolio(w)
                     ELSE [w EXCEPT !.call.pc = "cache"]]
    /\ UNCHANGED <<db, allocVars, engineVars>>

\* savings of a loaded profile (data_manager.py 54)
savings(profile) ==
    IF profile.income > 0 THEN profile.income - profile.expenses ELSE 0

\* the dict of data_manager.py 49-60
UserData(profile, portfolio) ==
    [id |-> profile.id,
     portfolio_id |-> portfolio.id,
     income |-> profile.income,
     expenses |-> profile.expenses,
     savings |-> savings(profile),
     investments |-> profile.investments,
     portfolio_allocation |-> portfolio.allocation,
     risk_tolerance |-> profile.risk_tolerance,
     investment_horizon |-> profile.investment_horizon,
     age |-> profile.age]

\* data_manager.py 48-62: user_data is filled only when the session has none
LoadCache(s) ==
    /\ Running(web[s], "get_user_financial_data", "cache")
    /\ LET w == web[s]
       IN  web' = [web EXCEPT ![s] =
                Ended(w,
                      IF "user_data" \in DOMAIN w.state THEN w.state
                      ELSE With(w.state, "user_data",
                                UserData(w.call.profile, w.call.portfolio)),
                      "page")]
    /\ UNCHANGED <<db, allocVars, engineVars>>

\* what the financial-profile form can be submitted with: the number inputs,
\* the select box, and the five sliders (Equity, Debt, Gold, Real Estate,
\* Cash) in percent
FormInputs ==
    { [income |-> 60000, expenses |-> 30000, savings |-> 30000,
       investments |-> 100000, risk_tolerance |-> "Aggressive", age |-> 30,
       investment_horizon |-> 11, sliders |-> <<60, 20, 5, 10, 5>>],
      [income |-> 50000, expenses |-> 30000, savings |-> 500000,
       investments |-> 200000, risk_tolerance |-> "Conservative", age |-> 45,
       investment_horizon |-> 2, sliders |-> <<100, 0, 0, 0, 0>>],
      [income |-> 70000, expenses |-> 30000, savings |-> 40000,
       investments |-> 100000, risk_tolerance |-> "Moderate", age |-> 30,
       investment_horizon |-> 10, sliders |-> <<50, 30, 10, 5, 4>>],
      [income |-> 70000, expenses |-> 30000, savings |-> 40000,
       investments |-> 100000, risk_tolerance |-> "Moderate", age |-> 30,
       investment_horizon |-> 10, sliders |-> <<50, 30, 10, 10, 5>>] }

\* total = equity + debt + gold + real_estate + cash (app.py 233)
total(form) == SeqSum(form.sliders)

\* SubmitProfile with a slip: the form is saved whatever the total
Refused_Never(form) == FALSE

\* "if total != 100" of app.py 248
Refused(form) == total(form) # 100

\* st.session_state.user_data.update({...}) (app.py 251-260)
Updated(user_data, form) ==
    [user_data EXCEPT
        !.income = form.income,
        !.expenses = form.expenses,
        !.savings = form.savings,
        !.investments = form.investments,
        !.portfolio_allocation =
            Table(form.sliders[1], form.sliders[2], form.sliders[3],
                  form.sliders[4], form.sliders[5]),
        !.risk_tolerance = form.risk_tolerance,
        !.investment_horizon = form.investment_horizon,
        !.age = form.age]

\* show_financial_profile, the submit button (app.py 245-265) up to the call
\* of update_profile.  The script run that handles the button has passed
\* get_user_financial_data again; with user_data cached and no row ever
\* deleted that pass only reads.
SubmitProfile(s, form) ==
    /\ web[s].call.op = "idle"
    /\ is_authenticated(web[s].state)
    /\ "user_data" \in DOMAIN web[s].state
    /\ LET w == web[s]
           user_data == Updated(w.state["user_data"], form)
       IN  web' = [web EXCEPT ![s] =
                IF Refused(form)
                THEN Ended(w, w.state, "Cannot save")
                ELSE [w EXCEPT
                        !.state = With(w.state, "user_data", user_data),
                        !.call = [op |-> "submit",
                                  stack |-> <<"save_user_financial_data">>,
                                  pc |-> "update_profile",
                                  user_data |-> user_data]]]
    /\ UNCHANGED <<db, allocVars, engineVars>>

\* profile_data of save_user_financial_data (data_manager.py 70-77) written
\* by update_profile: the row is replaced field by field when it exists
update_profile(rows, profile_id, user_data) ==
    [i \in DOMAIN rows |->
        IF rows[i].id = profile_id
        THEN [rows[i] EXCEPT
                !.income = user_data.income,
                !.expenses = user_data.expenses,
                !.investments = user_data.investments,
                !.risk_tolerance = user_data.risk_tolerance,
                !.investment_horizon = user_data.investment_horizon,
                !.age = user_data.age]
        ELSE rows[i]]

\* update_portfolio(portfolio_id, allocation = ...) (db_manager.py 156-171)
update_portfolio(rows, portfolio_id, allocation) ==
    [i \in DOMAIN rows |->
        IF rows[i].id = portfolio_id
        THEN [rows[i] EXCEPT !.allocation = allocation]
        ELSE rows[i]]

\* save_user_financial_data: update_profile (data_manager.py 79)
SaveProfile(s) ==
    /\ Running(web[s], "save_user_financial_data", "update_profile")
    /\ db' = [db EXCEPT !.profiles =
                 update_profile(@, web[s].call.user_data.id, web[s].call.user_data)]
    /\ web' = [web EXCEPT ![s].call.pc = "update_portfolio"]
    /\ UNCHANGED <<allocVars, engineVars>>

\* save_user_financial_data: update_portfolio (data_manager.py 81-86)
SavePortfolio(s) ==
    /\ Running(web[s], "save_user_financial_data", "update_portfolio")
    /\ db' = [db EXCEPT !.portfolios =
                 update_portfolio(@, web[s].call.user_data.portfolio_id,
                                  web[s].call.user_data.portfolio_allocation)]
    /\ web' = [web EXCEPT ![s] = Ended(web[s], web[s].state, "saved")]
    /\ UNCHANGED <<allocVars, engineVars>>

\* logout with a slip: the cached user_data is left in the session
LogoutKeys_KeepUserData == {"username", "authenticated"}

\* the keys logout deletes (auth.py 111-116)
LogoutKeys == {"username", "authenticated", "user_data"}

\* the Logout button of the sidebar (app.py 49-51, auth.py 109-118)
Logout(s) ==
    /\ web[s].call.op = "idle"
    /\ is_authenticated(web[s].state)
    /\ web' = [web EXCEPT ![s] =
                  Ended(web[s], Without(web[s].state, LogoutKeys), "Logged out")]
    /\ UNCHANGED <<db, allocVars, engineVars>>

(***************************************************************************)
(*                 get_engine: connecting to the store                     *)
(* database.py calls get_engine() once, when the module is imported.  The  *)
(* call is held in frame and its result in ret.  The state of the database *)
(* server is the field store of the frame: "up" lets the test connection   *)
(* succeed, "down" makes create_engine/connect raise OperationalError,     *)
(* "misconfigured" (a malformed DATABASE_URL, a missing driver) makes      *)
(* create_engine raise another exception, which get_engine does not catch. *)
(* attempts, failures and sleeps count what the call has done so far.      *)
(***************************************************************************)
MaxRetries == 5

StoreStates == {"up", "down", "misconfigured"}

\* get_engine(retries) is called: "for attempt in range(retries)" starts
\* with attempt 0, or ends at once and the function returns None
CallGetEngine(retries, store) ==
    /\ frame.op = "idle"
    /\ ret.op = "none"
    /\ IF retries >= 1
       THEN /\ frame' = [op |-> "get_engine", retries |-> retries,
                         attempt |-> 0, pc |-> "try", store |-> store,
                         attempts |-> 0, failures |-> 0, sleeps |-> 0]
            /\ ret' = ret
       ELSE /\ frame' = frame
            /\ ret' = [op |-> "get_engine", outcome |-> "return",
                       value |-> "None", retries |-> retries,
                       attempts |-> 0, failures |-> 0, sleeps |-> 0,
                       connected |-> FALSE]
    /\ UNCHANGED <<rng, parked, allocVars, appVars>>

\* the server comes up, goes down or is found misconfigured while get_engine
\* runs
StoreChanges(store) ==
    /\ frame.op = "get_engine"
    /\ frame.store # store
    /\ frame' = [frame EXCEPT !.store = store]
    /\ UNCHANGED <<rng, ret, parked, allocVars, appVars>>

\* what get_engine hands back, with the counts of the call
EngineResult(f, outcome, value, connected) ==
    [op |-> "get_engine", outcome |-> outcome, value |-> value,
     retries |-> f.retries, attempts |-> f.attempts,
     failures |-> f.failures, sleeps |-> f.sleeps, connected |-> connected]

\* get_engine with a slip: it waits after every failed attempt
WaitsBeforeRetry_Always(attempt, retries) == TRUE

\* "if attempt < retries - 1" (database.py 36)
WaitsBeforeRetry(attempt, retries) == attempt < retries - 1

\* one pass of the try block (database.py 22-42): create_engine, connect,
\* close and return, or the except branch
Attempt ==
    /\ frame.op = "get_engine"
    /\ frame.pc = "try"
    /\ LET f == [frame EXCEPT !.attempts = @ + 1]
           g == [f EXCEPT !.failures = @ + 1]
       IN  CASE frame.store = "up" ->
                  /\ ret' = EngineResult(f, "return", "engine", TRUE)
                  /\ frame' = [op |-> "idle"]
             [] frame.store = "misconfigured" ->
                  /\ ret' = EngineResult(f, "raise", "Exception", FALSE)
                  /\ frame' = [op |-> "idle"]
             [] frame.store = "down" ->
                  IF WaitsBeforeRetry(frame.attempt, frame.retries)
                  THEN /\ frame' = [g EXCEPT !.pc = "sleep"]
                       /\ ret' = ret
                  ELSE /\ ret' = EngineResult(g, "return", "memory", FALSE)
                       /\ frame' = [op |-> "idle"]
    /\ UNCHANGED <<rng, parked, allocVars, appVars>>

\* time.sleep(1), then the next value of range(retries); when the range is
\* used up the loop ends and the function returns None
Sleep ==
    /\ frame.op = "get_engine"
    /\ frame.pc = "sleep"
    /\ LET f == [frame EXCEPT !.sleeps = @ + 1, !.attempt = @ + 1]
       IN  IF f.attempt < f.retries
           THEN /\ frame' = [f EXCEPT !.pc = "try"]
                /\ ret' = ret
           ELSE /\ ret' = EngineResult(f, "return", "None", FALSE)
                /\ frame' = [op |-> "idle"]
    /\ UNCHANGED <<rng, parked, allocVars, appVars>>

(***************************************************************************)
(*                            Specifications                               *)
(***************************************************************************)
Periods == 0..MaxPeriods

Years == 0..MaxYears

SimYears == 0..MaxSimYears

InitEngine ==
    /\ rng = RngInit
    /\ frame = Idle
    /\ ret = NoRet
    /\ parked = [frame |-> Idle, ret |-> NoRet]

\* The engine: one caller running the three models.py functions in any order
Init ==
    /\ sum_impl \in SumImpls
    /\ rec = RecIdle
    /\ InitEngine
    /\ InitApp

Next ==
    \/ \E c \in CurrentRates, g \in TargetRates, n \in Periods : CallForecast(c, g, n)
    \/ ForecastStep
    \/ ForecastReturn
    \/ \E c \in CurrentRates, y \in SimYears : CallSimulate(c, y)
    \/ SimulateDraw
    \/ SimulateReturn
    \/ \E v \in InitialInvestments, a \in AllocationInputs, y \in Years :
          CallAnalyze(v, a, y)
    \/ AnalyzeSeed
    \/ AnalyzeStep
    \/ AnalyzeReturn

Spec == Init /\ [][Next]_vars

\* The recommendation function alone, applied to every input
NextAlloc ==
    \/ \E p \in RiskTags, h \in Horizons, r \in Rates : Recommend(p, h, r)
    \/ RecommendDone

SpecAlloc == Init /\ [][NextAlloc]_vars

\* The portfolio projection in binary64 on allocations of zero volatility
NextZeroVol ==
    \/ \E v \in InitialInvestments, a \in ZeroVolAllocations, y \in Years :
          CallAnalyze64(v, a, y)
    \/ AnalyzeSeed64
    \/ AnalyzeStep64
    \/ AnalyzeReturn64

SpecZeroVol == Init /\ [][NextZeroVol]_vars

\* the arguments the two sessions call the engine with
SessionPeriods == {1, 2}

SessionYears == {1, 2}

SessionAllocations == {DefaultAllocation, ZeroVolAllocation}

\* Two sessions whose calls follow one another, in any order
NextTurns ==
    \/ \E n \in SessionPeriods : CallForecast(10, 4, n)
    \/ ForecastStep
    \/ ForecastReturn
    \/ CallSimulate(10, 1)
    \/ SimulateDraw
    \/ SimulateReturn
    \/ \E a \in SessionAllocations, y \in SessionYears : CallAnalyze(100000, a, y)
    \/ AnalyzeSeed
    \/ AnalyzeStep
    \/ AnalyzeReturn
    \/ TakeTurns

SpecTurns == Init /\ [][NextTurns]_vars

\* the running session has not called the engine yet
FirstCall == frame.op = "idle" /\ ret = NoRet

OneForecast ==
    /\ FirstCall
    /\ \E n \in SessionPeriods : CallForecast(10, 4, n)

OneSimulate ==
    /\ FirstCall
    /\ CallSimulate(10, 1)

OneAnalyze ==
    /\ FirstCall
    /\ \E a \in SessionAllocations, y \in SessionYears : CallAnalyze(100000, a, y)

\* Two sessions that each make one call, in a fresh server process; the
\* calls overlap: the thread switch can come between any two steps
NextOverlap ==
    \/ OneForecast
    \/ ForecastStep
    \/ ForecastReturn
    \/ OneSimulate
    \/ SimulateDraw
    \/ SimulateReturn
    \/ OneAnalyze
    \/ AnalyzeSeed
    \/ AnalyzeStep
    \/ AnalyzeReturn
    \/ Switch

SpecOverlap == Init /\ [][NextOverlap]_vars

\* the arguments of the caller that uses every operation
CallerProfiles == {"Conservative", "Balanced"}

CallerHorizons == {2, 11}

CallerRates == {50, 61}

CallerAllocations == {DefaultAllocation, ZeroVolAllocation, CryptoAllocation}

\* One caller using every operation of the engine, one call at a time
NextCaller ==
    \/ CallForecast(10, 4, 1)
    \/ ForecastStep
    \/ ForecastReturn
    \/ CallSimulate(10, 1)
    \/ SimulateDraw
    \/ SimulateReturn
    \/ \E a \in CallerAllocations : CallAnalyze(100000, a, 1)
    \/ AnalyzeSeed
    \/ AnalyzeStep
    \/ AnalyzeReturn
    \/ \E a \in CallerAllocations, r \in RealRates, y \in SessionYears :
          calculate_portfolio_real_performance(a, r, y)
    \/ \E p \in CallerProfiles, h \in CallerHorizons, r \in CallerRates :
          frame.op = "idle" /\ Recommend(p, h, r)
    \/ RecommendDone

SpecCaller == Init /\ [][NextCaller]_vars

\* the allocations the projection is run on: non-negative weights, and
\* negative weights with a blended return of -10.5 and of -125.5 percent
ProjectAllocations == {DefaultAllocation, ShortDebtAllocation, ShortCashAllocation}

\* The portfolio projection alone, on allocations of any sign
NextProject ==
    \/ \E v \in InitialInvestments, a \in ProjectAllocations, y \in Years :
          CallAnalyze(v, a, y)
    \/ AnalyzeSeed
    \/ AnalyzeStep
    \/ AnalyzeReturn

SpecProject == Init /\ [][NextProject]_vars

\* current rates with which a draw of ten standard deviations takes a
\* scenario's yearly rate to -100 percent (2000) and below it (400)
ExtremeRates == {10, 400, 2000}

\* simulate_scenarios alone, on ordinary and on extreme current rates
NextExtreme ==
    \/ \E c \in ExtremeRates, y \in SimYears : CallSimulate(c, y)
    \/ SimulateDraw
    \/ SimulateReturn

SpecExtreme == Init /\ [][NextExtreme]_vars

\* the dashboard alone; the version of sum() has no part in it
InitDashboard == Init /\ sum_impl = "plain"

\* the steps inside create_user, create_default_profile,
\* create_default_portfolio and get_user_financial_data of session s
StoreStep(s) ==
    \/ CreateUserQuery(s)
    \/ CreateUserInsert(s)
    \/ CreateProfileQuery(s)
    \/ CreateProfileInsert(s)
    \/ CreatePortfolioQuery(s)
    \/ CreatePortfolioInsert(s)
    \/ LoadUser(s)
    \/ LoadProfiles(s)
    \/ LoadPortfolios(s)
    \/ LoadCache(s)

\* Two browser sessions on one store that log in, register, open the
\* dashboard and log out; their script runs interleave between any two
\* database operations, and the store can be out of reach for the script
\* run of a Login or Register button
NextApp ==
    \E s \in SessionIds :
       \/ \E u \in TypedNames, p \in TypedPasswords : Login(s, u, p)
       \/ \E u \in TypedNames, p \in TypedPasswords, c \in TypedConfirmations :
             Register(s, u, p, c)
       \/ \E u \in TypedNames, p \in TypedPasswords : LoginOffline(s, u, p)
       \/ \E u \in TypedNames, p \in TypedPasswords, c \in TypedConfirmations :
             RegisterOffline(s, u, p, c)
       \/ StoreStep(s)
       \/ Logout(s)

SpecApp == InitDashboard /\ [][NextApp]_vars

\* Two browser sessions of one user that also submit the profile form
NextForms ==
    \E s \in SessionIds :
       \/ Login(s, "ann", "pw")
       \/ Register(s, "ann", "pw", "pw")
       \/ StoreStep(s)
       \/ \E form \in FormInputs : SubmitProfile(s, form)
       \/ SaveProfile(s)
       \/ SavePortfolio(s)
       \/ Logout(s)

SpecForms == InitDashboard /\ [][NextForms]_vars

\* no script run of another session is under way
OthersIdle(s) == \A t \in SessionIds \ {s} : web[t].call.op = "idle"

\* One user in two browser sessions, one script run at a time: session 1
\* registers and fills in the profile form, session 2 logs in, opens the
\* dashboard and logs out
NextReload ==
    \E s \in SessionIds :
       /\ OthersIdle(s)
       /\ \/ s = 1 /\ Register(s, "ann", "pw", "pw")
          \/ s = 1 /\ \E form \in FormInputs : SubmitProfile(s, form)
          \/ s = 1 /\ SaveProfile(s)
          \/ s = 1 /\ SavePortfolio(s)
          \/ s = 2 /\ Login(s, "ann", "pw")
          \/ s = 2 /\ Logout(s)
          \/ StoreStep(s)

SpecReload == InitDashboard /\ [][NextReload]_vars

\* The import of database.py: one call of get_engine while the server
\* changes state
NextBoot ==
    \/ \E retries \in 0..MaxRetries, store \in StoreStates :
          CallGetEngine(retries, store)
    \/ \E store \in StoreStates : StoreChanges(store)
    \/ Attempt
    \/ Sleep

SpecBoot == InitDashboard /\ [][NextBoot]_vars

(***************************************************************************)
(*                Claims about get_recommended_allocation                  *)
(*                       (checked under SpecAlloc)                         *)
(***************************************************************************)
FOne == FInt(1)

\* 1e-6
Tolerance == FDiv(FInt(1), FInt(1000000))

\* |x - y|
FDist(x, y) == IF FLt(x, y) THEN FSub(y, x) ELSE FSub(x, y)

Returned == rec.pc = "returned"

\* the weights as adjusted, before the division by their sum
AdjustedWeights(r) ==
    AdjustInflation(
        AdjustHorizon(BaselineLookup(r.risk_profile), r.investment_horizon),
        r.inflation_rate)

\* C1: for every risk profile (an unrecognised tag included), every horizon
\* in 1..30 and every inflation rate, the five returned weights add up to 1
\* within 1e-6.
C1_WeightsSumToOne ==
    Returned =>
        FLe(FDist(NaiveSum(rec.value, 1, FZero), FOne), Tolerance)

\* C1 witness: a returned allocation for an unrecognised tag whose adjusted
\* weights did not add up to 1 before the division
C1_Witness ==
    /\ Returned
    /\ rec.risk_profile \notin KnownProfiles
    /\ rec.investment_horizon > 10
    /\ rec.inflation_rate > 60
    /\ FLt(FOne, NaiveSum(AdjustedWeights(rec), 1, FZero))

\* the call made no adjustment: horizon in [3,10] and rate in [4.0,6.0]
NoAdjustment ==
    /\ Returned
    /\ rec.risk_profile \in KnownProfiles
    /\ rec.investment_horizon \in 3..10
    /\ rec.inflation_rate >= 40
    /\ rec.inflation_rate <= 60

\* C2 as stated: with no adjustment the returned allocation is exactly the
\* profile's baseline table, for each of the three profiles.
C2_ExactBaselineAllProfiles ==
    NoAdjustment => rec.value = allocations[rec.risk_profile]

\* C2 amended: with no adjustment, Moderate and Aggressive return exactly
\* their baseline table; Conservative returns it exactly when sum() is the
\* compensated one, and otherwise each weight divided by the float sum
\* 1.0000000000000002 of its table, which is within 1e-6 of the baseline.
C2_BaselineUpToRounding ==
    NoAdjustment =>
        IF rec.risk_profile \in {"Moderate", "Aggressive"} \/ sum_impl = "compensated"
        THEN rec.value = allocations[rec.risk_profile]
        ELSE \A a \in Assets :
                FLe(FDist(rec.value[a], allocations[rec.risk_profile][a]), Tolerance)

\* C2 witness: Moderate, horizon 5, rate 5.0 returned 0.40 / 0.30 / 0.10 /
\* 0.15 / 0.05
C2_Witness ==
    /\ Returned
    /\ rec.risk_profile = "Moderate"
    /\ rec.investment_horizon = 5
    /\ rec.inflation_rate = 50
    /\ rec.value = Table(Lit(40), Lit(30), Lit(10), Lit(15), Lit(5))

InBand(r) == r >= 1 * FUnit /\ r <= 12 * FUnit

ForecastReturned == ret.op = "forecast" /\ ret.outcome = "ok"

\* C4: every forecasted rate lies in [1.0, 12.0] at every step, for any
\* current rate, target rate and shocks; the value carried to the next step
\* is the clamped one that was appended, not the raw one.
C4_RatesInBandEveryStep ==
    /\ frame.op = "forecast" =>
          /\ \A i \in 1..Len(frame.forecasted_rates) :
                InBand(frame.forecasted_rates[i])
          /\ Len(frame.forecasted_rates) > 0 =>
                frame.last_rate = frame.forecasted_rates[Len(frame.forecasted_rates)]
    /\ ForecastReturned =>
          \A i \in 1..Len(ret.rates) : InBand(ret.rates[i])

\* C4 witness: from 10 toward 14 the largest shock lands above 12.0 and is
\* cut to 12.0; the next step starts from 12.0
C4_Witness ==
    /\ frame.op = "forecast"
    /\ frame.current_rate = 10 * FUnit
    /\ frame.target_rate = 14 * FUnit
    /\ Len(frame.forecasted_rates) = 2
    /\ frame.shocks = <<ZBig, 0>>
    /\ frame.forecasted_rates[1] = 12 * FUnit
    /\ frame.forecasted_rates[2] = 12 * FUnit

\* every draw of the returned forecast was zero
ZeroShocks == \A i \in 1..Len(ret.shocks) : ret.shocks[i] = 0

\* the rate before entry i of the returned forecast
PrevRate(i) == IF i = 1 THEN ret.current_rate ELSE ret.rates[i - 1]

\* from step i-1 to step i the rate moved no farther from the target and
\* stayed on its side of it
Converging(i) ==
    /\ Abs(ret.target_rate - ret.rates[i]) <= Abs(ret.target_rate - PrevRate(i))
    /\ (PrevRate(i) - ret.target_rate) * (ret.rates[i] - ret.target_rate) >= 0

\* C5 as stated: with zero shocks rate[t] = rate[t-1] + 0.2 * (target -
\* rate[t-1]) from rate[0] = current, the distance to the target never
\* increases and the rate never crosses the target.
C5_UnclampedRecurrence ==
    (ForecastReturned /\ ZeroShocks) =>
        \A i \in 1..Len(ret.rates) :
            /\ 5 * (ret.rates[i] - PrevRate(i)) = ret.target_rate - PrevRate(i)
            /\ Converging(i)

\* current and target rate are both above 12.0 or both below 1.0
BothBeyondBand ==
    \/ ret.current_rate > 12 * FUnit /\ ret.target_rate > 12 * FUnit
    \/ ret.current_rate < 1 * FUnit /\ ret.target_rate < 1 * FUnit

\* C5 amended: with zero shocks rate[t] is rate[t-1] + 0.2 * (target -
\* rate[t-1]) cut to [1.0, 12.0]; unless current and target rate are both
\* above 12.0 or both below 1.0, the distance to the target never increases
\* and the rate never crosses the target.
C5_ClampedRecurrence ==
    (ForecastReturned /\ ZeroShocks) =>
        \A i \in 1..Len(ret.rates) :
            LET u == 5 * PrevRate(i) + (ret.target_rate - PrevRate(i))
            IN  /\ 5 * ret.rates[i] =
                      IF u > 60 * FUnit THEN 60 * FUnit
                      ELSE IF u < 5 * FUnit THEN 5 * FUnit
                      ELSE u
                /\ ~BothBeyondBand => Converging(i)

\* C5 witness: current 10, target 4, no shocks: 8.8, then 7.84
C5_Witness ==
    /\ ForecastReturned
    /\ ret.current_rate = 10 * FUnit
    /\ ret.target_rate = 4 * FUnit
    /\ ret.shocks = <<0, 0>>
    /\ 5 * ret.rates[1] = 44 * FUnit
    /\ 25 * ret.rates[2] = 196 * FUnit

\* C6: called with periods = n >= 1, forecast_inflation returns exactly n
\* rates, the first of them being one step after the current rate, and
\* expected_average is the arithmetic mean of the n rates.
C6_PeriodsRatesAndMean ==
    (ret.op = "forecast" /\ ret.periods >= 1) =>
        /\ ret.outcome = "ok"
        /\ Len(ret.rates) = ret.periods
        /\ LET u == 20 * ret.current_rate
                      + 4 * (ret.target_rate - ret.current_rate)
                      + 5 * ret.shocks[1] * FUnit
           IN  20 * ret.rates[1] =
                   IF u > 240 * FUnit THEN 240 * FUnit
                   ELSE IF u < 20 * FUnit THEN 20 * FUnit
                   ELSE u
        /\ ret.expected_average.num * ret.periods
              = SeqSum(ret.rates) * ret.expected_average.den

\* C6 witness: three periods from 10 toward 4 with draws 0, +, -; the first
\* entry is 8.8, not 10
C6_Witness ==
    /\ ForecastReturned
    /\ ret.periods = 3
    /\ ret.current_rate = 10 * FUnit
    /\ ret.target_rate = 4 * FUnit
    /\ ret.shocks = <<0, ZBig, -ZBig>>
    /\ Len(ret.rates) = 3
    /\ 5 * ret.rates[1] = 44 * FUnit
    /\ 3 * ret.expected_average.num
          = (ret.rates[1] + ret.rates[2] + ret.rates[3]) * ret.expected_average.den

(***************************************************************************)
(*      Claims about simulate_scenarios and the portfolio projection       *)
(*                          (checked under Spec)                           *)
(***************************************************************************)
SimulateReturned == ret.op = "simulate" /\ ret.outcome = "ok"

\* C7: simulate_scenarios returns exactly three scenarios named Expected,
\* High Inflation and Low Inflation; in each the inflation path has `years`
\* entries, purchasing_power has years + 1 entries and starts at 1.0, and
\* purchasing_power[t] = purchasing_power[t-1] / (1 + inflation_path[t-1]/100).
C7_ThreeScenariosRecurrence ==
    SimulateReturned =>
        /\ DOMAIN ret.scenarios = 1..3
        /\ ret.scenarios[1].name = "Expected"
        /\ ret.scenarios[2].name = "High Inflation"
        /\ ret.scenarios[3].name = "Low Inflation"
        /\ \A s \in 1..3 :
              LET path == ret.scenarios[s].inflation_path
                  pp   == ret.scenarios[s].purchasing_power
              IN  /\ Len(path) = ret.years
                  /\ Len(pp) = ret.years + 1
                  /\ pp[1] = PPOne
                  /\ \A i \in 1..ret.years :
                        pp[i + 1] = MulDiv(pp[i], Hundred, Hundred + path[i])

\* C7 witness: two years from 10 percent; the High Inflation path was drawn
\* as 12 and then 27 percent, and purchasing power fell to 1/1.12 and on
C7_Witness ==
    /\ SimulateReturned
    /\ ret.years = 2
    /\ ret.current_inflation = 10
    /\ ret.scenarios[2].inflation_path = <<12 * 40, 27 * 40>>
    /\ ret.scenarios[2].purchasing_power[2] = 892857
    /\ ret.scenarios[2].purchasing_power[3] < 892857

\* every rate of the path is positive
AllPositive(path) == \A i \in 1..Len(path) : path[i] > 0

\* C8: in every returned scenario whose inflation path has only positive
\* rates, purchasing power is strictly decreasing.
C8_PositiveRatesErodePower ==
    SimulateReturned =>
        \A s \in 1..3 :
            AllPositive(ret.scenarios[s].inflation_path) =>
                \A i \in 1..ret.years :
                    ret.scenarios[s].purchasing_power[i + 1]
                        < ret.scenarios[s].purchasing_power[i]

\* C8 witness: two years of positive rates in the Expected scenario, and a
\* Low Inflation scenario (a negative rate in it) whose purchasing power rose
C8_Witness ==
    /\ SimulateReturned
    /\ ret.years = 2
    /\ AllPositive(ret.scenarios[1].inflation_path)
    /\ ret.scenarios[1].purchasing_power[3] < ret.scenarios[1].purchasing_power[2]
    /\ ret.scenarios[1].purchasing_power[2] < PPOne
    /\ ~AllPositive(ret.scenarios[3].inflation_path)
    /\ ret.scenarios[3].purchasing_power[2] > PPOne

AnalyzeReturned == ret.op = "analyze" /\ ret.outcome = "ok"

\* C9: analyze_portfolio_performance returns exactly three paths named
\* Expected, Optimistic and Pessimistic; each has years + 1 values, the first
\* is the initial investment and each later value is the previous value
\* times (1 + that year's drawn return).
C9_ThreePathsCompound ==
    AnalyzeReturned =>
        /\ DOMAIN ret.scenarios = 1..3
        /\ ret.scenarios[1].name = "Expected"
        /\ ret.scenarios[2].name = "Optimistic"
        /\ ret.scenarios[3].name = "Pessimistic"
        /\ \A s \in 1..3 :
              LET values == ret.scenarios[s].values
                  drawn  == ret.scenarios[s].returns
              IN  /\ Len(values) = ret.years + 1
                  /\ Len(drawn) = ret.years
                  /\ values[1] = ret.initial_investment
                  /\ \A i \in 1..ret.years :
                        values[i + 1] = MulDiv(values[i], E4 + drawn[i], E4)

\* C9 witness: 100000 in the default allocation over three years; the
\* Expected path moved in each year
C9_Witness ==
    /\ AnalyzeReturned
    /\ ret.years = 3
    /\ ret.initial_investment = 100000
    /\ ret.portfolio_allocation = DefaultAllocation
    /\ Len(ret.scenarios[1].values) = 4
    /\ ret.scenarios[1].values[2] # 100000
    /\ ret.scenarios[1].values[3] # ret.scenarios[1].values[2]
    /\ ret.scenarios[1].values[4] # ret.scenarios[1].values[3]

(***************************************************************************)
(*          Claims about the projection with zero volatility                *)
(*                      (checked under SpecZeroVol)                        *)
(***************************************************************************)
AnalyzeReturned64 == ret.op = "analyze64" /\ ret.outcome = "ok"

ZeroVolatility == FIsZero(ret.portfolio_volatility.mag)

\* adjusted_return / 100 of scenario s of the returned projection
AdjReturnFraction(s) ==
    SDiv(adjusted_return64(ret.portfolio_return, s), SInt(100))

\* |x - y| of two signed doubles
SDist(x, y) == SSub(x, y).mag

\* 1e-12
TinyTolerance == FMul(Tolerance, Tolerance)

\* the call of the example: return 10 percent, 3 years, 100000 invested
TenPercentExample ==
    /\ ret.portfolio_return = SInt(10)
    /\ ret.years = 3
    /\ ret.initial_investment = 100000

\* C10 as stated: with zero blended volatility every yearly return equals
\* adjReturn/100 exactly, and the Expected path of the example is
\* [100000, 110000, 121000, 133100].
C10_ExactReturnAndPath ==
    (AnalyzeReturned64 /\ ZeroVolatility) =>
        /\ \A s \in 1..3 : \A i \in 1..ret.years :
              ret.scenarios[s].returns[i] = AdjReturnFraction(s)
        /\ TenPercentExample =>
              ret.scenarios[1].values =
                  <<SInt(100000), SInt(110000), SInt(121000), SInt(133100)>>

\* C10 amended: with zero blended volatility the yearly return is the same
\* in every year of a path and equals adjReturn/100 up to the rounding of
\* binary64 (within 1e-12; exactly when adjReturn is 0), each value is the
\* previous one times (1 + that return), and the Expected path of the
\* example is [100000, 110000, 121000, 133100] within 1e-6.
C10_ReturnAndPathUpToRounding ==
    (AnalyzeReturned64 /\ ZeroVolatility) =>
        /\ \A s \in 1..3 : \A i \in 1..ret.years :
              LET yr     == ret.scenarios[s].returns[i]
                  values == ret.scenarios[s].values
              IN  /\ yr = ret.scenarios[s].returns[1]
                  /\ FLe(SDist(yr, AdjReturnFraction(s)), TinyTolerance)
                  /\ FIsZero(AdjReturnFraction(s).mag) => FIsZero(yr.mag)
                  /\ values[i + 1] = SMul(values[i], SAdd(SInt(1), yr))
        /\ TenPercentExample =>
              /\ ret.scenarios[1].values[1] = SInt(100000)
              /\ FLe(SDist(ret.scenarios[1].values[2], SInt(110000)), Tolerance)
              /\ FLe(SDist(ret.scenarios[1].values[3], SInt(121000)), Tolerance)
              /\ FLe(SDist(ret.scenarios[1].values[4], SInt(133100)), Tolerance)

\* C10 witness: the example on a build whose exp(log(1.1)) is 1.1: the
\* yearly return is 1.1 - 1 = 0.10000000000000009 and the first year ends
\* one unit of the last place above 110000
C10_Witness ==
    /\ AnalyzeReturned64
    /\ ZeroVolatility
    /\ TenPercentExample
    /\ ret.libm[1] = 0
    /\ ret.scenarios[1].returns[1] = SSub(Tenths(11), SInt(1))
    /\ ret.scenarios[1].returns[1] # AdjReturnFraction(1)
    /\ ret.scenarios[1].values[2] = SPos(Nudge(FInt(110000), 1))

(***************************************************************************)
(*               Claims about two sessions taking turns                    *)
(*                      (checked under SpecTurns)                          *)
(***************************************************************************)
\* r is what a completed projection returned
AnalyzeOk(r) == r.op = "analyze" /\ r.outcome = "ok"

\* two projections were called with the same arguments
SameArguments(r, q) ==
    /\ r.initial_investment = q.initial_investment
    /\ r.portfolio_allocation = q.portfolio_allocation
    /\ r.years = q.years

\* the three value paths of a returned projection
ValuePaths(r) == [s \in 1..3 |-> r.scenarios[s].values]

\* C11: two calls of analyze_portfolio_performance that follow one another
\* (here: the last call of each session) with the same initial investment,
\* allocation and years return identical value paths, whatever forecasts and
\* simulations drew from the generator before either of them.
C11_SameArgumentsSamePaths ==
    (AnalyzeOk(ret) /\ AnalyzeOk(parked.ret) /\ SameArguments(ret, parked.ret)) =>
        ValuePaths(ret) = ValuePaths(parked.ret)

\* C11 witness: a two-year projection that started on the entropy-seeded
\* generator and a later one with the same arguments that started after
\* other operations had drawn from the seeded stream; the paths moved
C11_Witness ==
    /\ AnalyzeOk(ret)
    /\ AnalyzeOk(parked.ret)
    /\ SameArguments(ret, parked.ret)
    /\ ret.years = 2
    /\ ret.portfolio_allocation = DefaultAllocation
    /\ parked.ret.rng_at_call = RngInit
    /\ ret.rng_at_call.mode = "seeded"
    /\ ret.rng_at_call.pos > 6
    /\ ret.scenarios[1].values[2] # ret.scenarios[1].values[1]
    /\ ret.scenarios[1].values[3] # ret.scenarios[1].values[2]

(***************************************************************************)
(*                 Claims about two overlapping sessions                   *)
(*                     (checked under SpecOverlap)                         *)
(***************************************************************************)
\* the value path of scenario s that the projection r returns when no other
\* call touches the generator between its seeding and its last draw: draw
\* number (s - 1) * years + i of the seed-42 stream goes to year i
RECURSIVE AloneValues(_, _, _)
AloneValues(r, s, values) ==
    IF Len(values) > r.years THEN values
    ELSE AloneValues(r, s,
            Append(values,
                   next_value(values[Len(values)],
                              yearly_return(
                                  adjusted_return(r.portfolio_return, s),
                                  adjusted_volatility(r.portfolio_volatility, s),
                                  Stream42[(s - 1) * r.years + Len(values)]))))

\* C12: when the calls of two sessions overlap, every projection still
\* returns the value paths it returns when run alone: no draw of it was
\* consumed, and its stream was not reset, by the other session's call.
C12_PathsAsWhenAlone ==
    \A r \in {ret, parked.ret} :
        AnalyzeOk(r) =>
            ValuePaths(r) = [s \in 1..3 |-> AloneValues(r, s, <<r.initial_investment>>)]

(***************************************************************************)
(*              Claims about what a call leaves behind                     *)
(*                         (checked under Spec)                            *)
(***************************************************************************)
\* C13: every engine operation is free of side effects: when a call has
\* returned, the process-wide generator (its seed and its position) is as
\* it was when the call began, so that what a later operation can draw does
\* not depend on the operations that ran before it.
C13_GeneratorAsBeforeTheCall ==
    ret.op # "none" => rng = ret.rng_at_call

(***************************************************************************)
(*        Claims about the caller's objects (checked under SpecCaller)     *)
(* A dict is passed by reference.  The fields of frame that hold the       *)
(* arguments are the caller's objects as the call in progress sees them,   *)
(* and the same fields of ret are those objects when the call returns.     *)
(* simulate_scenarios never reads its user_data argument.                  *)
(***************************************************************************)
\* the inflation snapshot and the allocation a call was handed
Arguments(f) ==
    CASE f.op = "forecast" -> <<f.current_rate, f.target_rate>>
      [] f.op = "simulate" -> <<f.current_inflation>>
      [] f.op = "analyze"  -> <<f.portfolio_allocation>>
      [] f.op = "real_performance" -> <<f.portfolio_allocation, f.inflation_rate>>
      [] OTHER -> <<>>

\* one step of a call leaves the caller's objects, and the baseline tables,
\* as they were
InputsKept ==
    /\ (frame.op # "idle" /\ frame'.op # "idle") =>
          Arguments(frame') = Arguments(frame)
    /\ (frame.op # "idle" /\ frame'.op = "idle") =>
          Arguments(ret') = Arguments(frame)
    /\ rec'.pc = "returned" => rec'.allocations = allocations

\* C14: forecast_inflation, simulate_scenarios, analyze_portfolio_performance
\* and calculate_portfolio_real_performance leave the inflation snapshot and
\* the allocation passed to them unchanged at every step up to the return,
\* and get_recommended_allocation leaves its baseline tables unchanged, so
\* that the next call starts from the same baseline.
C14_InputsUnchanged == [][InputsKept]_vars

\* C14 witness: a recommendation whose adjustments moved every weight away
\* from the Conservative table while the table kept its entries, next to a
\* returned projection whose path moved and whose allocation is the one
\* passed in
C14_Witness ==
    /\ rec.pc = "returned"
    /\ rec.risk_profile = "Conservative"
    /\ rec.investment_horizon = 11
    /\ rec.inflation_rate = 61
    /\ \A a \in Assets : rec.value[a] # allocations["Conservative"][a]
    /\ rec.allocations = allocations
    /\ AnalyzeOk(ret)
    /\ ret.portfolio_allocation = DefaultAllocation
    /\ ret.scenarios[1].values[2] # ret.scenarios[1].values[1]

(***************************************************************************)
(*        Claims about the validation of arguments (checked under Spec)    *)
(***************************************************************************)
\* the period or year count a call was given
Count(r) == IF r.op = "forecast" THEN r.periods ELSE r.years

\* the call's other arguments are in order
OtherwiseValid(r) == r.op = "analyze" => KnownKeys(r.portfolio_allocation)

\* C15: a call of forecast_inflation, simulate_scenarios or
\* analyze_portfolio_performance with a period or year count that is not
\* positive (and nothing else wrong with its arguments) ends with
\* InvalidHorizon: it returns no result and fails with no other error.
C15_NonPositiveCountRejected ==
    (/\ ret.op \in {"forecast", "simulate", "analyze"}
     /\ Count(ret) <= 0
     /\ OtherwiseValid(ret)) =>
        ret.outcome = "InvalidHorizon"

\* a weight of the allocation is negative
HasNegativeWeight(portfolio_allocation) ==
    \E k \in DOMAIN portfolio_allocation : portfolio_allocation[k] < 0

\* C16 (checked under SpecCaller): a call of analyze_portfolio_performance
\* or calculate_portfolio_real_performance with an allocation that has a
\* negative weight, or a key outside the five asset classes, ends with
\* InvalidAllocation; the allocation is not used in the weighted sum.
C16_InvalidAllocationRejected ==
    (/\ ret.op \in {"analyze", "real_performance"}
     /\ \/ HasNegativeWeight(ret.portfolio_allocation)
        \/ ~KnownKeys(ret.portfolio_allocation)) =>
        ret.outcome = "InvalidAllocation"

(***************************************************************************)
(*          Claims about the two adjustments of the recommendation         *)
(*                       (checked under SpecAlloc)                         *)
(***************************************************************************)
\* C17: for a fixed risk profile and inflation rate the result depends on
\* the horizon only through its branch, and the shift is made once: every
\* horizon above 10 (11 as well as 30) returns what horizon 30 returns,
\* horizons 1 and 2 return what horizon 1 returns, and every horizon from 3
\* to 10 returns the allocation without a horizon shift.
C17_HorizonBranchOnly ==
    Returned =>
        rec.value =
            IF rec.investment_horizon > 10 THEN
                get_recommended_allocation(rec.risk_profile, 30,
                                           rec.inflation_rate, sum_impl)
            ELSE IF rec.investment_horizon < 3 THEN
                get_recommended_allocation(rec.risk_profile, 1,
                                           rec.inflation_rate, sum_impl)
            ELSE
                Normalize(AdjustInflation(BaselineLookup(rec.risk_profile),
                                          rec.inflation_rate), sum_impl)

\* C17 witness: Moderate at horizon 11 and rate 5.0: the result is that of
\* horizon 30 and not the unshifted table
C17_Witness ==
    /\ Returned
    /\ rec.risk_profile = "Moderate"
    /\ rec.investment_horizon = 11
    /\ rec.inflation_rate = 50
    /\ rec.value = get_recommended_allocation("Moderate", 30, 50, sum_impl)
    /\ rec.value["Equity"] # allocations["Moderate"]["Equity"]

\* the weight x raised by d hundredths but not above cap hundredths
Raised(x, d, cap) == FMin(FAdd(x, Lit(d)), Lit(cap))

\* the weight x lowered by d hundredths but not below floor hundredths; a
\* weight below d gives a negative difference, which is below every floor
Lowered(x, d, floor) ==
    IF FLt(x, Lit(d)) THEN Lit(floor)
    ELSE FMax(FSub(x, Lit(d)), Lit(floor))

\* each of the five weights divided by their sum
DividedBySum(w) == [a \in Assets |-> FDiv(w[a], PySum(w, sum_impl))]

\* the inflation rate of the call is in [4.0, 6.0]
RateInBand == rec.inflation_rate >= 40 /\ rec.inflation_rate <= 60

\* C18: with the inflation rate in [4.0, 6.0], a horizon above 10 returns
\* the baseline with Equity raised by 0.10 (not above 0.70), Debt lowered by
\* 0.05 (not below 0.10) and Cash lowered by 0.05 (not below 0.05), each
\* weight divided by the sum; a horizon below 3 returns the baseline with
\* Equity lowered by 0.10 (not below 0.10), Debt raised by 0.05 (not above
\* 0.50) and Cash raised by 0.05 (not above 0.20), each divided by the sum;
\* Gold and Real Estate are changed by the division only.
C18_HorizonShiftThenDivision ==
    (Returned /\ RateInBand) =>
        LET b == BaselineLookup(rec.risk_profile)
        IN  /\ rec.investment_horizon > 10 =>
                  rec.value = DividedBySum(
                      Table(Raised(b["Equity"], 10, 70), Lowered(b["Debt"], 5, 10),
                            b["Gold"], b["Real Estate"], Lowered(b["Cash"], 5, 5)))
            /\ rec.investment_horizon < 3 =>
                  rec.value = DividedBySum(
                      Table(Lowered(b["Equity"], 10, 10), Raised(b["Debt"], 5, 50),
                            b["Gold"], b["Real Estate"], Raised(b["Cash"], 5, 20)))

\* C18 witness: Aggressive at horizon 11 and rate 5.0: Equity is stopped at
\* 0.70 and Cash at 0.05, the sum is 1.05 and Gold comes back below 0.05
C18_Witness ==
    /\ Returned
    /\ rec.risk_profile = "Aggressive"
    /\ rec.investment_horizon = 11
    /\ rec.inflation_rate = 50
    /\ AdjustedWeights(rec)["Equity"] = Lit(70)
    /\ AdjustedWeights(rec)["Cash"] = Lit(5)
    /\ FLt(rec.value["Gold"], Lit(5))
    /\ FLt(rec.value["Equity"], Lit(70))

\* the allocation as the horizon step left it
AfterHorizon(r) == AdjustHorizon(BaselineLookup(r.risk_profile), r.investment_horizon)

\* C19: the inflation adjustment is made only for a rate strictly outside
\* [4.0, 6.0].  At 4.0, at 6.0 and between them the allocation is as the
\* horizon step left it; above 6.0 Equity and Gold are raised by 0.05 (not
\* above 0.70 and 0.20) and Cash and Debt lowered by 0.05 (not below 0.05
\* and 0.10); below 4.0 Debt and Cash are raised by 0.05 (not above 0.50 and
\* 0.20) and Equity and Gold lowered by 0.05 (not below 0.10 and 0.05).  The
\* result is then divided by its sum.
C19_InflationShiftOutsideBand ==
    Returned =>
        LET h == AfterHorizon(rec)
        IN  rec.value =
                IF rec.inflation_rate > 60 THEN
                    DividedBySum(
                        Table(Raised(h["Equity"], 5, 70), Lowered(h["Debt"], 5, 10),
                              Raised(h["Gold"], 5, 20), h["Real Estate"],
                              Lowered(h["Cash"], 5, 5)))
                ELSE IF rec.inflation_rate < 40 THEN
                    DividedBySum(
                        Table(Lowered(h["Equity"], 5, 10), Raised(h["Debt"], 5, 50),
                              Lowered(h["Gold"], 5, 5), h["Real Estate"],
                              Raised(h["Cash"], 5, 20)))
                ELSE DividedBySum(h)

\* C19 witness: Aggressive at horizon 5: the rate 6.0 returned the table as
\* it is, 0.05 of Gold included
C19_Witness ==
    /\ Returned
    /\ rec.risk_profile = "Aggressive"
    /\ rec.investment_horizon = 5
    /\ rec.inflation_rate = 60
    /\ rec.value = allocations["Aggressive"]
    /\ rec.value["Gold"] = Lit(5)

\* the inflation shift, with its caps and floors, of the weights w
InflationShifted(w, inflation_rate) ==
    IF inflation_rate > 60 THEN
        Table(Raised(w["Equity"], 5, 70), Lowered(w["Debt"], 5, 10),
              Raised(w["Gold"], 5, 20), w["Real Estate"], Lowered(w["Cash"], 5, 5))
    ELSE IF inflation_rate < 40 THEN
        Table(Lowered(w["Equity"], 5, 10), Raised(w["Debt"], 5, 50),
              Lowered(w["Gold"], 5, 5), w["Real Estate"], Raised(w["Cash"], 5, 20))
    ELSE w

\* the five weights of w, computed, in the order of AssetOrder
Listed(w) == <<w["Equity"], w["Debt"], w["Gold"], w["Real Estate"], w["Cash"]>>

\* C20: for every risk profile, horizon and inflation rate the returned
\* weights are those of two steps that are each divided by their sum: the
\* horizon shift of the baseline divided by its sum (h), then the inflation
\* shift of that allocation divided by its sum (t); compared within 1e-6.
C20_TwoRenormalizedSteps ==
    Returned =>
        \A h \in {Listed(DividedBySum(AfterHorizon(rec)))} :
            \A t \in {Listed(DividedBySum(
                          InflationShifted(Table(h[1], h[2], h[3], h[4], h[5]),
                                           rec.inflation_rate)))} :
                \A i \in 1..Len(AssetOrder) :
                    FLe(FDist(rec.value[AssetOrder[i]], t[i]), Tolerance)

(***************************************************************************)
(*           Claims about the blended return and its scenarios             *)
(***************************************************************************)
\* 12.0, 7.5, 8.0, 9.0, 5.5 times the weights (tenths of a percent times
\* hundredths)
LinearReturn(w) ==
    120 * w["Equity"] + 75 * w["Debt"] + 80 * w["Gold"]
        + 90 * w["Real Estate"] + 55 * w["Cash"]

\* 18.0, 6.0, 12.0, 10.0, 0.5 times the weights
LinearVolatility(w) ==
    180 * w["Equity"] + 60 * w["Debt"] + 120 * w["Gold"]
        + 100 * w["Real Estate"] + 5 * w["Cash"]

\* the draw behind the i-th yearly return of scenario s: the call seeds the
\* generator with 42 and fills the three paths one after the other
Draw42(r, s, i) == Stream42[(s - 1) * r.years + i]

\* C21: the portfolio return and the portfolio volatility of
\* analyze_portfolio_performance are the weight-linear sums of the per-asset
\* constants; the yearly returns of Expected, Optimistic and Pessimistic are
\* drawn with them multiplied by 1.0/1.0, 1.2/0.8 and 0.8/1.2; and for a
\* non-negative portfolio return the adjusted returns are ordered
\* Pessimistic <= Expected <= Optimistic.
C21_LinearBlendAndMultipliers ==
    AnalyzeReturned =>
        LET pr == LinearReturn(ret.portfolio_allocation)
            pv == LinearVolatility(ret.portfolio_allocation)
        IN  /\ ret.portfolio_return = pr
            /\ ret.portfolio_volatility = pv
            /\ \A i \in 1..ret.years :
                  /\ ret.scenarios[1].returns[i] =
                        yearly_return(10 * pr, 10 * pv, Draw42(ret, 1, i))
                  /\ ret.scenarios[2].returns[i] =
                        yearly_return(12 * pr, 8 * pv, Draw42(ret, 2, i))
                  /\ ret.scenarios[3].returns[i] =
                        yearly_return(8 * pr, 12 * pv, Draw42(ret, 3, i))
            /\ pr >= 0 => (8 * pr <= 10 * pr /\ 10 * pr <= 12 * pr)

\* C21 witness: the default allocation over three years: blended return 8.95
\* percent, blended volatility 10.55 percent, and the first yearly returns
\* of the three scenarios differ
C21_Witness ==
    /\ AnalyzeReturned
    /\ ret.years = 3
    /\ ret.portfolio_allocation = DefaultAllocation
    /\ ret.portfolio_return = 8950
    /\ ret.portfolio_volatility = 10550
    /\ ret.scenarios[1].returns[1] # ret.scenarios[2].returns[1]
    /\ ret.scenarios[1].returns[1] # ret.scenarios[3].returns[1]

(***************************************************************************)
(*            Claims about the caps and floors of the result               *)
(***************************************************************************)
\* the floor and the cap of the rule table, in hundredths; Real Estate has
\* neither
RuleBounds ==
    [a \in Assets \ {"Real Estate"} |->
        CASE a = "Equity" -> <<10, 70>>
          [] a = "Debt"   -> <<10, 50>>
          [] a = "Gold"   -> <<5, 20>>
          [] a = "Cash"   -> <<5, 20>>]

\* floor(a) <= x <= cap(a)
WithinBounds(a, x) ==
    /\ FLe(Lit(RuleBounds[a][1]), x)
    /\ FLe(x, Lit(RuleBounds[a][2]))

\* C22 as claimed: for every risk profile, horizon in 1..30 and inflation
\* rate, the returned Equity weight is in [0.10, 0.70], Debt in [0.10, 0.50],
\* Gold in [0.05, 0.20] and Cash in [0.05, 0.20].
C22_ReturnedWithinCapsAndFloors ==
    Returned =>
        \A a \in DOMAIN RuleBounds : WithinBounds(a, rec.value[a])

\* C22 as the code has it: the caps and floors bound the adjusted weights
\* before the final division by their sum; the returned weights are those
\* divided by the sum, they stay at or below the caps, and they are not
\* below the floor divided by 1.10 (compared within 1e-6).
C22_BoundsBeforeDivision ==
    Returned =>
        \A w \in {Listed(AdjustedWeights(rec))} :
            \A t \in {Listed(DividedBySum(Table(w[1], w[2], w[3], w[4], w[5])))} :
                \A i \in 1..Len(AssetOrder) :
                    LET a == AssetOrder[i]
                    IN  /\ rec.value[a] = t[i]
                        /\ a \in DOMAIN RuleBounds =>
                              /\ WithinBounds(a, w[i])
                              /\ FLe(rec.value[a], Lit(RuleBounds[a][2]))
                              /\ FLe(FDiv(Lit(RuleBounds[a][1]), Lit(110)),
                                     FAdd(rec.value[a], Tolerance))

\* C22 witness: Aggressive, horizon 11, inflation 6.1: the adjusted weights
\* sum to 1.05 and the returned Debt and Cash are below their floors
C22_Witness ==
    /\ Returned
    /\ rec.risk_profile = "Aggressive"
    /\ rec.investment_horizon = 11
    /\ rec.inflation_rate = 61
    /\ FLt(rec.value["Debt"], Lit(10))
    /\ FLt(rec.value["Cash"], Lit(5))

(***************************************************************************)
(*       Claims about the sign of the projected values                     *)
(*                    (checked under SpecProject)                          *)
(***************************************************************************)
\* the i-th value of scenario s of the returned projection is a number
\* greater than zero
PositiveValue(s, i) ==
    /\ ~(i > 1 /\ ret.scenarios[s].nan)
    /\ ret.scenarios[s].values[i] > 0

\* the adjusted return of scenario s, in units of 1e-4 percent: the linear
\* blend times 1.0, 1.2, 0.8
AdjustedReturnOf(s) ==
    LinearReturn(ret.portfolio_allocation) * (CASE s = 1 -> 10 [] s = 2 -> 12 [] s = 3 -> 8)

AboveMinusHundred(path) == \A t \in 1..Len(path) : Hundred + path[t] > 0

\* the step in which simulate_scenarios turns the drawn paths into its
\* result: paths are the three inflation paths as drawn, r what is returned
PowerStep(paths, r) ==
    /\ (\E s \in 1..3 : DividesByZero(paths[s])) =>
          r.outcome = "ZeroDivisionError"
    /\ (\A s \in 1..3 : ~DividesByZero(paths[s])) =>
          /\ r.outcome = "ok"
          /\ \A s \in 1..3 :
                LET pp == r.scenarios[s].purchasing_power
                IN  /\ r.scenarios[s].inflation_path = paths[s]
                    /\ AboveMinusHundred(paths[s]) =>
                          \A t \in 1..Len(pp) : pp[t] > 0
                    /\ \A t \in 1..Len(paths[s]) :
                          Hundred + paths[s][t] < 0 =>
                              /\ pp[t + 1] =
                                    MulDiv(pp[t], Hundred, Hundred + paths[s][t])
                              /\ pp[t] > 0 => pp[t + 1] < 0

\* C24: in simulate_scenarios purchasing power is defined and strictly
\* positive at every step of a path whose drawn rates are all greater than
\* -100; a drawn rate of -100 makes the divisor zero and the call ends in
\* the division error; a drawn rate below -100 is divided by as it is, with
\* a negative divisor: no guard or floor is applied.
C24_NoGuardOnTheDivisor ==
    [][(frame.op = "simulate" /\ frame'.op = "idle") => PowerStep(frame.paths, ret')]_vars

\* C24 witness: one year from a current rate of 400 percent with draws of
\* minus ten standard deviations: the Expected rate is -20 percent and its
\* purchasing power 1.25; the High Inflation rate is -120 percent and its
\* purchasing power -5.0
C24_Witness ==
    /\ SimulateReturned
    /\ ret.current_inflation = 400
    /\ ret.years = 1
    /\ ret.scenarios[1].inflation_path = <<-20 * 40>>
    /\ ret.scenarios[1].purchasing_power = <<PPOne, 1250000>>
    /\ ret.scenarios[2].inflation_path = <<-120 * 40>>
    /\ ret.scenarios[2].purchasing_power = <<PPOne, -5000000>>

(***************************************************************************)
(*                  Claims about the dashboard (SpecApp)                   *)
(***************************************************************************)
\* a weight table in hundredths summed in the order of the assets
Percent(allocation) ==
    SeqSum([i \in 1..Len(AssetOrder) |-> allocation[AssetOrder[i]]])

\* every allocation cached in a session and every stored one totals 100
AllocationsTotalHundred ==
    /\ \A s \in SessionIds :
          "user_data" \in DOMAIN web[s].state
             => Percent(web[s].state["user_data"].portfolio_allocation) = 100
    /\ \A i \in DOMAIN db.portfolios :
          Percent(db.portfolios[i].allocation) = 100

\* a submission whose sliders do not total 100 ends with the error and
\* leaves the session state and the store as they were
RefusedChangesNothing ==
    \A s \in SessionIds, form \in FormInputs :
       (SubmitProfile(s, form) /\ SeqSum(form.sliders) # 100)
          => /\ web'[s].last = "Cannot save"
             /\ web'[s].state = web[s].state
             /\ web'[s].call.op = "idle"
             /\ db' = db

\* C25: after any sequence of financial-profile submissions the allocation
\* cached in every session and every stored portfolio has five weights that
\* total 100 percent, and a submission whose percentages do not total 100 is
\* refused with the error and changes neither the session's user_data nor
\* the stored profile and portfolio.
C25_SavedAllocationsTotalHundred ==
    /\ []AllocationsTotalHundred
    /\ [][RefusedChangesNothing]_vars

\* one session's submission was saved, then the other session's submission
\* of sliders totalling 99 was refused
C25_Witness ==
    /\ web[2].last = "Cannot save"
    /\ "user_data" \in DOMAIN web[2].state
    /\ web[1].last = "saved"
    /\ \E i \in DOMAIN db.portfolios :
          db.portfolios[i].allocation = Table(60, 20, 5, 10, 5)

\* the fields of user_data that a profile is made of
ProfileFields ==
    {"income", "expenses", "savings", "investments", "portfolio_allocation",
     "risk_tolerance", "investment_horizon", "age"}

\* session 2 ends get_user_financial_data without a cached user_data, and
\* the last script run of session 1 was a completed save_user_financial_data
\* of the user_data that session 1 still holds
ReloadAfterSave ==
    /\ LoadCache(2)
    /\ "user_data" \notin DOMAIN web[2].state
    /\ web[1].last = "saved"

\* C26: saving and reloading a profile is a round trip: after
\* save_user_financial_data(user_data) a session without cached user_data
\* that calls get_user_financial_data for the same user gets the income,
\* expenses, savings, investments, portfolio allocation, risk tolerance,
\* investment horizon and age that were saved.
C26_SaveReloadRoundTrip ==
    [][ReloadAfterSave
          => \A field \in ProfileFields :
                web'[2].state["user_data"][field]
                   = web[1].state["user_data"][field]]_vars

\* what does hold: every field but savings comes back as saved, and savings
\* comes back as income - expenses (0 without income)
C26_AllButSavings ==
    [][ReloadAfterSave
          => LET saved == web[1].state["user_data"]
                 loaded == web'[2].state["user_data"]
             IN  /\ \A field \in ProfileFields \ {"savings"} :
                       loaded[field] = saved[field]
                 /\ loaded.savings = IF saved.income > 0
                                     THEN saved.income - saved.expenses
                                     ELSE 0
                 /\ loaded.id = saved.id
                 /\ loaded.portfolio_id = saved.portfolio_id]_vars

\* session s is unauthenticated before the step and authenticated after it
BecomesAuthenticated(s) ==
    /\ ~is_authenticated(web[s].state)
    /\ is_authenticated(web'[s].state)

\* the step ends a Login run whose username is in the user store
LoginOfStoredUser(s) ==
    /\ web[s].call.op = "idle"
    /\ web'[s].last = "Welcome back"
    /\ UsersNamed(web'[s].state["username"]) # <<>>

\* the step ends a Register run whose create_user added the user to the store
RegistrationThatCreated(s) ==
    /\ web[s].call.op = "register"
    /\ web[s].call.created
    /\ UsersNamed(web'[s].state["username"]) # <<>>

\* C27: a session becomes authenticated only by a login whose username
\* exists in the user store or by a registration that created a new user;
\* every other outcome of the Login and Register buttons (unknown user,
\* empty field, password mismatch, taken username, store error) leaves the
\* session unauthenticated.
C27_AuthenticatedOnlyByLoginOrNewUser ==
    [][\A s \in SessionIds :
          BecomesAuthenticated(s)
             => LoginOfStoredUser(s) \/ RegistrationThatCreated(s)]_vars

\* what does hold: a session becomes authenticated by a login of a stored
\* user, by a registration whose create_user returned a user (created by it
\* or found by it), or by a registration during an outage
C27_AuthenticatedByReturnedUser ==
    [][\A s \in SessionIds :
          BecomesAuthenticated(s)
             => \/ LoginOfStoredUser(s)
                \/ /\ web[s].call.op = "register"
                   /\ UsersNamed(web'[s].state["username"]) # <<>>
                \/ /\ web[s].call.op = "idle"
                   /\ web'[s].last = "Account created"]_vars

\* require_login (auth.py 128-133): False when the session is not
\* authenticated
require_login(state) == is_authenticated(state)

\* the user_data cached in a session was loaded from a profile and a
\* portfolio of the user the session is logged in as
CachedDataIsOwn ==
    \A s \in SessionIds :
       "user_data" \in DOMAIN web[s].state
          => /\ "username" \in DOMAIN web[s].state
             /\ \E i \in DOMAIN db.users, j \in DOMAIN db.profiles,
                   k \in DOMAIN db.portfolios :
                   /\ db.users[i].username = web[s].state["username"]
                   /\ db.profiles[j].id = web[s].state["user_data"].id
                   /\ db.profiles[j].user_id = db.users[i].id
                   /\ db.portfolios[k].id = web[s].state["user_data"].portfolio_id
                   /\ db.portfolios[k].user_id = db.users[i].id

\* after logout the three keys are gone and require_login is False
LogoutClearsSession ==
    \A s \in SessionIds :
       Logout(s)
          => /\ DOMAIN web'[s].state
                   \cap {"username", "authenticated", "user_data"} = {}
             /\ ~require_login(web'[s].state)

AtMostOneEach ==
    /\ \A username \in Usernames : Len(UsersNamed(username)) <= 1
    /\ \A i \in DOMAIN db.users :
          /\ Len(ProfilesOf(db.users[i].id)) <= 1
          /\ Len(PortfoliosOf(db.users[i].id)) <= 1

\* a commit of create_user, create_default_profile or create_default_
\* portfolio for something the store already holds adds no row
ExistingAddsNoRow ==
    \A s \in SessionIds :
       /\ (CreateUserInsert(s) /\ UsersNamed(web[s].call.username) # <<>>)
             => db' = db
       /\ (CreateProfileInsert(s) /\ ProfilesOf(web[s].call.user.id) # <<>>)
             => db' = db
       /\ (CreatePortfolioInsert(s) /\ PortfoliosOf(web[s].call.user.id) # <<>>)
             => db' = db

\* C29: after any sequence or interleaving of create_user,
\* create_default_profile and create_default_portfolio calls, two sessions
\* creating the same username at once included, every username maps to at
\* most one user and every user has at most one financial profile and at
\* most one portfolio; a create call for something that already exists adds
\* no row.
C29_AtMostOneUserProfilePortfolio ==
    /\ []AtMostOneEach
    /\ [][ExistingAddsNoRow]_vars

\* what does hold: usernames are unique, and a user gets a second profile or
\* portfolio only from a create call whose query ran before the first commit
C29_UsernamesUnique ==
    [](\A username \in Usernames : Len(UsersNamed(username)) <= 1)

C30_WitnessFallback ==
    /\ ret.op = "get_engine"
    /\ ret.retries = 3
    /\ ret.value = "memory"
    /\ ret.attempts = 3
    /\ ret.sleeps = 2

====
